---- MODULE Spec2Model ----
(***************************************************************************)
(* A model of the JACK engine (jackd/engine.c): the client list, the port  *)
(* table with its per-port connection lists, the per-type buffer           *)
(* free-lists, the graph sorter (fed_by, trace-terminal closure, client    *)
(* sort, total latencies, FIFO rechaining), the request handlers that      *)
(* mutate the graph, the port segments and the audio thread's cycle.       *)
(*                                                                         *)
(* The specifications share the state:                                     *)
(*   Spec         requests, failing clients and unloads, from the engine   *)
(*                as jack_engine_new and the first jack_set_buffer_size    *)
(*                leave it;                                                *)
(*   SpecLock     requests over two port types, with clients that lock     *)
(*                their ports;                                             *)
(*   SpecLatency  requests, with clients that set their ports' latencies;  *)
(*   SpecSort     jack_sort_graph applied to every connection graph over a *)
(*                bounded client list;                                     *)
(*   SpecBuffer   registrations while the driver sets and changes the      *)
(*                buffer size, from the engine as jack_engine_new leaves   *)
(*                it;                                                      *)
(*   SpecCycle    the audio thread (cycles, xruns) while clients are       *)
(*                activated and fail;                                      *)
(*   SpecThreads  the steps of the request thread interleaved with the     *)
(*                cycles of the audio thread.                              *)
(***************************************************************************)
EXTENDS Integers, Sequences, FiniteSets, TLC

VARIABLES
    clients,          \* engine->clients: the client list, as client ids in list order
    client,           \* client id -> jack_client_internal_t with its control block
    next_client_id,   \* engine->next_client_id
    port_max,         \* engine->port_max
    ports,            \* port id -> jack_port_shared_t + jack_port_internal_t
    freelist,         \* type id -> port_types[i].buffer_freelist (buffer offsets)
    events,           \* the events jack_deliver_event delivered during the last handler
    op,               \* the last handler run, its arguments and its status
    overflow,         \* jack_trace_terminal recursed without bound (the stack is gone)
    client_lock,      \* engine->client_lock (the graph mutex) is held
    hist,             \* the engine as it was before the last connect or registration
    engine            \* control->buffer_size, port_types[i].shm_info.size, silent_buffer,
                      \* process_errors, and what the audio thread did last

vars == <<clients, client, next_client_id, port_max, ports, freelist, events, op,
          overflow, client_lock, hist, engine>>

----------------------------------------------------------------------------
(* Bounds of the model *)

\* engine->port_max of the request-level specification (128 in jack_engine_new)
PortMax == 2
\* client ids jack_client_internal_new may hand out in Spec
MaxClients == 2
\* connection records that may be allocated at a time
MaxConns == 2
\* port names a request may carry
NumNames == 2
\* the latencies a client may store in a port's shared descriptor
MaxLatency == 1
\* the errors a client may collect before jack_engine_post_process sees them
MaxErrors == 1
\* clients of the graphs SpecSort sorts
NumSortClients == 4
\* connections of the graphs SpecSort sorts
MaxEdges == 4
\* the buffer sizes (in frames) a driver may set
MaxFrames == 2
\* the length of the first type's free-list beyond which no further buffer-size
\* change is explored
MaxBuffers == 2
\* the consecutive cycles with an excessive delay that are explored
MaxDelays == 1
\* the cycles whose frame-timer update is explored
MaxTimerCycles == 3

\* the entries of the poll set up to which new external clients are explored
MaxPollFds == 20
\* the FIFO indices that are requested
MaxFifo == 21
\* the clients of the lists whose cycles SpecProcess runs
NumProcessClients == 3

----------------------------------------------------------------------------
(* Program constants *)

JACK_ERROR_WITH_SOCKETS == 10000000
\* the execution_order of a client never chained (UINT_MAX, cut to the 31 bits of a
\* TLC integer: above every FIFO index)
UINT_MAX == 2147483647
\* the hop count beyond which jack_get_port_total_latency bottoms out
MaxHopCount == 8
\* the consecutive excessive delays jack_run_cycle puts up with
MaxExcessiveDelays == 10

ClientTypes == {"ClientInternal", "ClientDriver", "ClientExternal"}

\* the port types of the engine: type 0 mixes its connections down, type 1 cannot
jack_builtin_port_types ==
    <<[type_id |-> 0, mixdown |-> TRUE], [type_id |-> 1, mixdown |-> FALSE]>>
n_port_types == Len(jack_builtin_port_types)
Mixdown(type_id) == jack_builtin_port_types[type_id + 1].mixdown

----------------------------------------------------------------------------
(* JSList: singly linked lists as sequences *)

jack_slist_prepend(list, data) == <<data>> \o list
jack_slist_find(list, data) == \E i \in DOMAIN list : list[i] = data

RECURSIVE jack_slist_remove(_, _)
\* removes the first node holding data
jack_slist_remove(list, data) ==
    IF list = <<>> THEN <<>>
    ELSE IF Head(list) = data THEN Tail(list)
    ELSE <<Head(list)>> \o jack_slist_remove(Tail(list), data)

Range(list) == {list[i] : i \in DOMAIN list}
SetMax(S) == IF S = {} THEN 0 ELSE CHOOSE x \in S : \A y \in S : y <= x

----------------------------------------------------------------------------
(* Events *)

Event(type, to, x, y) == [type |-> type, to |-> to, x |-> x, y |-> y]

\* jack_deliver_event: a dead client drops the event
jack_deliver_event(evs, C, c, type, x, y) ==
    IF C[c].dead THEN evs ELSE Append(evs, Event(type, c, x, y))

jack_client_is_internal(C, c) ==
    C[c].type = "ClientInternal" \/ C[c].type = "ClientDriver"

RECURSIVE jack_client_internal_by_id(_, _, _)
\* the first client of the list with this id, 0 (NULL) when there is none
jack_client_internal_by_id(C, L, id) ==
    IF L = <<>> THEN 0
    ELSE IF Head(L) = id THEN id
    ELSE jack_client_internal_by_id(C, Tail(L), id)

----------------------------------------------------------------------------
(* The graph sorter *)

\* might has an output connected to an input of target
jack_client_feeds(C, P, might, target) ==
    \E i \in DOMAIN C[might].ports :
        \E k \in DOMAIN P[C[might].ports[i]].connections :
            LET c == P[C[might].ports[i]].connections[k] IN
                /\ P[c.source].client_id = might
                /\ P[c.destination].client_id = target

RECURSIVE DirectFedBy(_, _, _, _, _)
\* the inner loop of jack_sort_graph: scan the client list, prepending each feeder
DirectFedBy(C, P, L, c, acc) ==
    IF L = <<>> THEN acc
    ELSE DirectFedBy(C, P, Tail(L), c,
                     IF jack_client_feeds(C, P, Head(L), c)
                     THEN jack_slist_prepend(acc, Head(L)) ELSE acc)

RECURSIVE FedByAll(_, _, _, _)
\* the first loop of jack_sort_graph: rebuild the fed_by of the clients at L[i..]
FedByAll(C, P, L, i) ==
    IF i > Len(L) THEN C
    ELSE FedByAll([C EXCEPT ![L[i]].fed_by = DirectFedBy(C, P, L, L[i], <<>>)], P, L, i + 1)

RECURSIVE jack_trace_terminal(_, _, _, _)
RECURSIVE TraceLoop(_, _, _, _, _, _)
\* st = [C |-> the clients, overflow |-> BOOLEAN].  stack holds the c1 of every call
\* that has not returned.  A nested call reads only fed_by lists that no call
\* changes (c2 # rbase), so a call that finds its own c1 on the stack repeats itself
\* for ever: the recursion never returns.
jack_trace_terminal(st, c1, rbase, stack) ==
    IF st.overflow THEN st
    ELSE IF c1 \in stack THEN [st EXCEPT !.overflow = TRUE]
    ELSE IF st.C[c1].fed_by = <<>> THEN st
    ELSE TraceLoop(st, st.C[c1].fed_by, 1, c1, rbase, stack \cup {c1})

TraceLoop(st, existing, i, c1, rbase, stack) ==
    IF st.overflow \/ i > Len(existing) THEN st
    ELSE LET c2 == existing[i] IN
         IF c2 # rbase /\ c2 # c1
         THEN LET marked == IF ~jack_slist_find(st.C[rbase].fed_by, c2)
                            THEN [st EXCEPT !.C[rbase].fed_by = jack_slist_prepend(@, c2)]
                            ELSE st
              IN  IF ~jack_slist_find(st.C[c2].fed_by, c1)
                  THEN TraceLoop(jack_trace_terminal(marked, c2, rbase, stack),
                                 existing, i + 1, c1, rbase, stack)
                  ELSE TraceLoop(marked, existing, i + 1, c1, rbase, stack)
         ELSE TraceLoop(st, existing, i + 1, c1, rbase, stack)

RECURSIVE TraceAll(_, _, _)
\* the second loop of jack_sort_graph: trace every client of the list in turn
TraceAll(st, L, i) ==
    IF i > Len(L) \/ st.overflow THEN st
    ELSE TraceAll(jack_trace_terminal(st, L[i], L[i], {}), L, i + 1)

\* the comparator: 1 when a comes after b, -1 when b comes after a, 0 otherwise
jack_client_sort(C, a, b) ==
    IF jack_slist_find(C[a].fed_by, b)
    THEN IF jack_slist_find(C[b].fed_by, a) /\ C[a].type = "ClientDriver" THEN -1 ELSE 1
    ELSE IF jack_slist_find(C[b].fed_by, a)
    THEN IF jack_slist_find(C[a].fed_by, b) /\ C[b].type = "ClientDriver" THEN 1 ELSE -1
    ELSE 0

RECURSIVE jack_slist_sort_merge(_, _, _)
\* merges two sorted lists; equivalent heads keep their order (a stable sort)
jack_slist_sort_merge(C, l1, l2) ==
    IF l1 = <<>> THEN l2
    ELSE IF l2 = <<>> THEN l1
    ELSE IF jack_client_sort(C, Head(l1), Head(l2)) <= 0
    THEN <<Head(l1)>> \o jack_slist_sort_merge(C, Tail(l1), l2)
    ELSE <<Head(l2)>> \o jack_slist_sort_merge(C, l1, Tail(l2))

RECURSIVE jack_slist_sort(_, _)
jack_slist_sort(C, list) ==
    IF Len(list) <= 1 THEN list
    ELSE LET h == Len(list) \div 2 IN
         jack_slist_sort_merge(C,
             jack_slist_sort(C, SubSeq(list, 1, h)),
             jack_slist_sort(C, SubSeq(list, h + 1, Len(list))))

RECURSIVE jack_get_port_total_latency(_, _, _, _)
jack_get_port_total_latency(P, port, hop_count, toward_port) ==
    IF hop_count > MaxHopCount THEN P[port].latency
    ELSE LET conns == P[port].connections
             followed == {k \in DOMAIN conns :
                            ~ \/ (toward_port /\ conns[k].source = port)
                              \/ (~toward_port /\ conns[k].destination = port)}
             other(k) == IF conns[k].destination = port
                         THEN conns[k].source ELSE conns[k].destination
             this_latency(k) ==
                 IF "JackPortIsTerminal" \in P[other(k)].flags
                 THEN P[other(k)].latency
                 ELSE jack_get_port_total_latency(P, other(k), hop_count + 1, toward_port)
         IN  P[port].latency + SetMax({this_latency(k) : k \in followed})

RECURSIVE LatencyLoop(_, _, _)
\* the loop of jack_compute_all_port_total_latencies from slot i on: Q is the table
\* being written, P the connections and latencies it reads (no call changes them)
LatencyLoop(Q, P, i) ==
    IF i \notin DOMAIN P THEN Q
    ELSE LatencyLoop(
             IF P[i].in_use
             THEN [Q EXCEPT ![i].total_latency =
                      jack_get_port_total_latency(P, i, 0,
                                                  ~("JackPortIsOutput" \in P[i].flags))]
             ELSE Q, P, i + 1)

jack_compute_all_port_total_latencies(P) == LatencyLoop(P, P, 0)

\* the FIFO descriptor of FIFO which_fifo: a descriptor is named by its FIFO's index
jack_get_fifo_fd(which_fifo) == which_fifo

RECURSIVE NextActive(_, _, _)
\* the next active client of the list after position i, 0 (NULL) when there is none
NextActive(C, L, i) ==
    IF i >= Len(L) THEN 0
    ELSE IF C[L[i + 1]].active THEN L[i + 1]
    ELSE NextActive(C, L, i + 1)

RECURSIVE RechainLoop(_, _, _)
\* st = [C |-> clients, n |-> FIFO counter, subgraph_client |-> id or 0, events |-> ...]
RechainLoop(st, L, i) ==
    IF i > Len(L) THEN st
    ELSE IF ~st.C[L[i]].active THEN RechainLoop(st, L, i + 1)
    ELSE LET c == L[i]
             C1 == [st.C EXCEPT ![c].execution_order = st.n,
                                ![c].next_client = NextActive(st.C, L, i)]
         IN  IF jack_client_is_internal(C1, c)
             THEN LET C2 == IF st.subgraph_client # 0
                            THEN [C1 EXCEPT ![st.subgraph_client].subgraph_wait_fd =
                                                jack_get_fifo_fd(st.n)]
                            ELSE C1
                      n2 == IF st.subgraph_client # 0 THEN st.n + 1 ELSE st.n
                  IN  RechainLoop([C |-> C2, n |-> n2, subgraph_client |-> 0,
                                   events |-> jack_deliver_event(st.events, C2, c,
                                                  "GraphReordered", -1, -1)],
                                  L, i + 1)
             ELSE LET C2 == IF st.subgraph_client = 0
                            THEN [C1 EXCEPT ![c].subgraph_start_fd = jack_get_fifo_fd(st.n)]
                            ELSE [C1 EXCEPT ![st.subgraph_client].subgraph_wait_fd = -1]
                      sc == IF st.subgraph_client = 0 THEN c ELSE st.subgraph_client
                  IN  RechainLoop([C |-> C2, n |-> st.n + 1, subgraph_client |-> sc,
                                   events |-> jack_deliver_event(st.events, C2, c,
                                                  "GraphReordered", C2[c].execution_order, -1)],
                                  L, i + 1)

\* the loop alone, the subgraph it ends in left open
RechainOpenEnded(C, L, evs) ==
    RechainLoop([C |-> C, n |-> 0, subgraph_client |-> 0, events |-> evs], L, 1)

jack_rechain_graph(C, L, evs) ==
    LET st == RechainLoop([C |-> C, n |-> 0, subgraph_client |-> 0, events |-> evs], L, 1)
    IN  IF st.subgraph_client # 0
        THEN [st EXCEPT !.C[st.subgraph_client].subgraph_wait_fd = jack_get_fifo_fd(st.n)]
        ELSE st

\* the rest of jack_sort_graph once the fed_by lists are traced
SortTraced(tr, L, P, evs) ==
    IF tr.overflow
    THEN [client |-> tr.C, clients |-> L, ports |-> P, events |-> evs, overflow |-> TRUE]
    ELSE LET L2 == jack_slist_sort(tr.C, L)
             rc == jack_rechain_graph(tr.C, L2, evs)
         IN  [client |-> rc.C, clients |-> L2,
              ports |-> jack_compute_all_port_total_latencies(P),
              events |-> rc.events, overflow |-> FALSE]

\* jack_sort_graph on clients C in list order L over port table P, after the events
\* evs: the engine state it leaves
jack_sort_graph(C, L, P, evs) ==
    SortTraced(TraceAll([C |-> FedByAll(C, P, L, 1), overflow |-> FALSE], L, 1), L, P, evs)

----------------------------------------------------------------------------
(* Records as the constructors leave them *)

\* jack_client_internal_new
NewClient(type) ==
    [type |-> type, active |-> FALSE, dead |-> FALSE, ports |-> <<>>, fed_by |-> <<>>,
     execution_order |-> UINT_MAX, next_client |-> 0,
     subgraph_start_fd |-> -1, subgraph_wait_fd |-> -1, error |-> 0,
     port_register |-> FALSE,
     process |-> FALSE, state |-> "NotTriggered", timed_out |-> 0, awake_at |-> 0]

\* a port slot of the zero-filled control segment, as jack_engine_new leaves it
FreePort ==
    [in_use |-> FALSE, name |-> 0, client_id |-> 0, type_id |-> 0, flags |-> {},
     locked |-> FALSE, latency |-> 0, total_latency |-> 0, monitor_requests |-> 0,
     offset |-> 0, buffer_info |-> -1, connections |-> <<>>]

Connection(source, destination, id) ==
    [source |-> source, destination |-> destination, id |-> id]

Op(type, status, args) == [type |-> type, status |-> status, args |-> args]

\* no request is remembered: valid/undone remember a connect and the disconnect that
\* undid it, registered/unregistered a registration and the unregistration of its port
NoHist ==
    [valid |-> FALSE, undone |-> FALSE, registered |-> FALSE, unregistered |-> FALSE,
     ports |-> <<>>, client |-> <<>>, freelist |-> <<>>, args |-> <<>>]

\* what the audio thread did since it last returned from driver->wait: the path it
\* took, the value jack_run_cycle returned, how it acquired the graph lock, the calls
\* it made, the clients whose event socket failed and the clients it dispatched
AudioDid(type, ret, lock) ==
    [type |-> type, ret |-> ret, lock |-> lock, null_cycle |-> 0, read |-> 0,
     write |-> 0, stop |-> 0, start |-> 0, process |-> 0, post_process |-> 0,
     unlock |-> 0, failed |-> {}, dispatched |-> <<>>, calls |-> <<>>]

\* the audio thread is in driver->wait
InDriverWait == AudioDid("wait", 0, "none")

\* a transport time of the zero-filled control segment
NewTime == [frame |-> 0, transport_state |-> "JackTransportStopped", valid |-> {}]

\* the transport time the engine falls back to when it loses its timebase client
StoppedTime ==
    [frame |-> 0, transport_state |-> "JackTransportStopped",
     valid |-> {"JackTransportState", "JackTransportPosition"}]

\* a transport time a timebase client sets while it rolls
RollingTime ==
    [frame |-> 1, transport_state |-> "JackTransportRolling",
     valid |-> {"JackTransportState", "JackTransportPosition"}]

\* the watchdog of an engine that does not run in real time: no thread, and the
\* heartbeat as jack_main_thread set it.  pc is the place of the watchdog thread,
\* check is engine->watchdog_check, tested says that the thread has tested the
\* heartbeat before, entered that jack_run_cycle was entered since it last did
NoWatchdog == [pc |-> "none", check |-> 1, tested |-> FALSE, entered |-> FALSE]

\* jack_run_cycle stamps the heartbeat
Stamped(wd) == IF wd.pc = "none" THEN wd ELSE [wd EXCEPT !.check = 1, !.entered = TRUE]

\* the frame timer of the zero-filled control segment
FrameTimerNew == [guard1 |-> 0, frames |-> 0, stamp |-> 0, guard2 |-> 0]

\* the threads at the frame timer: pc is the place of the audio thread in
\* jack_inc_frame_time ("out" when it is not in it), last_wait_ust the time the driver
\* stamped on its latest wait; reader is the place of a client thread that reads the
\* timer, order the order it reads the fields in and copy what it has read
TimerThreadsNew ==
    [pc |-> "out", last_wait_ust |-> 0,
     reader |-> "idle", order |-> "forward", copy |-> FrameTimerNew]

\* sizeof (struct pollfd) and sizeof (int) of the builds the engine has
SizeofPollfd == 8
SizeofInt == 4
\* the entries pfd and fifo start with and grow by
ArrayChunk == 16

\* engine->pfd as jack_engine_new allocates it and jack_server_thread fills it: the
\* two server sockets.  bytes is the size of the allocation
PollSetNew == [size |-> ArrayChunk, max |-> 2, bytes |-> SizeofPollfd * ArrayChunk]

\* engine->fifo as jack_engine_new allocates it
FifoNew == [size |-> ArrayChunk, bytes |-> SizeofInt * ArrayChunk]

\* setup_client puts the request fd of a new external client into the poll set
setup_client_pfd(pfd) ==
    LET grown == IF pfd.max >= pfd.size
                 THEN [pfd EXCEPT !.bytes = SizeofPollfd * pfd.size + 16,
                                  !.size = pfd.size + 16]
                 ELSE pfd
    IN  [grown EXCEPT !.max = pfd.max + 1]

\* jack_remove_client takes the request fd of an external client out of the poll set
remove_client_pfd(pfd) == [pfd EXCEPT !.max = pfd.max - 1]

\* the poll set of an engine whose clients C all connected with success
PollSetOf(C) ==
    [PollSetNew EXCEPT
        !.max = @ + Cardinality({c \in DOMAIN C : C[c].type = "ClientExternal"})]

\* the engine's buffer bookkeeping as jack_engine_new leaves it: no buffer size, no
\* port segment, no silent buffer (NULL)
EngineNew ==
    [buffer_size |-> 0,
     shm_size |-> [t \in 0..(n_port_types - 1) |-> 0],
     silent_buffer |-> -1,
     process_errors |-> 0,
     consecutive_excessive_delays |-> 0,
     audio |-> InDriverWait,
     watchdog |-> NoWatchdog,
     frame_timer |-> FrameTimerNew,
     pfd |-> PollSetNew,
     fifo |-> FifoNew,
     timer_threads |-> TimerThreadsNew,
     transport |-> [timebase_client |-> 0, current_time |-> NewTime,
                    pending_time |-> NewTime]]

----------------------------------------------------------------------------
(* SpecSort: jack_sort_graph over every bounded connection graph *)

SortClientIds == 1..NumSortClients
OutPort(c) == 2 * (c - 1)
InPort(c) == 2 * (c - 1) + 1

\* the pair (feeder, fed) number k, in the order the connections were made
EdgeOf(k) == <<((k - 1) \div NumSortClients) + 1, ((k - 1) % NumSortClients) + 1>>
EdgeNumbers == 1..(NumSortClients * NumSortClients)

\* the connections that may be made among the active clients A: from an output of
\* one to an input of another
EdgesAmong(A) ==
    {k \in EdgeNumbers : EdgeOf(k)[1] \in A /\ EdgeOf(k)[2] \in A /\ EdgeOf(k)[1] # EdgeOf(k)[2]}

RECURSIVE EdgeSets(_, _)
\* the sets of at most k of the connections K
EdgeSets(K, k) ==
    IF k = 0 THEN {{}}
    ELSE LET S == EdgeSets(K, k - 1) IN S \cup {s \cup {e} : s \in S, e \in K}

\* the client types of a list: the engine has at most one driver
SortTypes ==
    {T \in [SortClientIds -> ClientTypes] :
        Cardinality({c \in SortClientIds : T[c] = "ClientDriver"}) <= 1}

RECURSIVE ConnectionsOf(_, _, _)
\* the connection list of port p once the connections E were made in ascending
\* order, each prepended to both its ports' lists
ConnectionsOf(E, p, k) ==
    IF k = 0 THEN <<>>
    ELSE LET c == Connection(OutPort(EdgeOf(k)[1]), InPort(EdgeOf(k)[2]), k) IN
         IF k \in E /\ (c.source = p \/ c.destination = p)
         THEN <<c>> \o ConnectionsOf(E, p, k - 1)
         ELSE ConnectionsOf(E, p, k - 1)

SortPorts(E) ==
    [p \in 0..(2 * NumSortClients - 1) |->
        [FreePort EXCEPT !.in_use = TRUE, !.name = p + 1, !.client_id = (p \div 2) + 1,
                         !.flags = IF p % 2 = 0 THEN {"JackPortIsOutput"}
                                   ELSE {"JackPortIsInput"},
                         !.latency = 1,
                         !.buffer_info = IF p % 2 = 0 THEN p \div 2 ELSE -1,
                         !.offset = IF p % 2 = 0 THEN p \div 2 ELSE 0,
                         !.connections = ConnectionsOf(E, p, NumSortClients * NumSortClients)]]

InitSort ==
    \E A \in SUBSET SortClientIds :
    \E E \in EdgeSets(EdgesAmong(A), MaxEdges), T \in SortTypes :
        /\ clients = [i \in SortClientIds |-> i]
        /\ client = [c \in SortClientIds |->
                        [NewClient(T[c]) EXCEPT !.active = (c \in A),
                                                !.ports = <<InPort(c), OutPort(c)>>]]
        /\ next_client_id = NumSortClients + 1
        /\ port_max = 2 * NumSortClients
        /\ ports = SortPorts(E)
        /\ freelist = [t \in 0..(n_port_types - 1) |-> <<>>]
        /\ events = <<>>
        /\ op = Op("none", 0, <<>>)
        /\ overflow = FALSE
        /\ client_lock = FALSE
        /\ hist = NoHist
        /\ engine = [EngineNew EXCEPT !.pfd = PollSetOf(client)]

\* jack_sort_graph, called with the graph lock held
SortGraph ==
    /\ op.type = "none"
    /\ ~overflow
    /\ \E r \in {jack_sort_graph(client, clients, ports, <<>>)} :
        /\ client' = r.client
        /\ clients' = r.clients
        /\ ports' = r.ports
        /\ events' = r.events
        /\ overflow' = r.overflow
    /\ op' = Op("jack_sort_graph", 0, <<>>)
    /\ UNCHANGED <<engine, next_client_id, port_max, freelist, client_lock, hist>>

\* jack_sort_graph called again, nothing having changed since the first call
SortGraphAgain ==
    /\ op.type = "jack_sort_graph"
    /\ ~overflow
    /\ \E r \in {jack_sort_graph(client, clients, ports, <<>>)} :
        /\ client' = r.client
        /\ clients' = r.clients
        /\ ports' = r.ports
        /\ events' = r.events
        /\ overflow' = r.overflow
    /\ op' = Op("jack_sort_graph_again", 0, <<>>)
    /\ UNCHANGED <<engine, next_client_id, port_max, freelist, client_lock, hist>>

NextSort ==
    \/ SortGraph
    \/ SortGraphAgain

SpecSort == InitSort /\ [][NextSort]_vars

----------------------------------------------------------------------------
(* The engine's operations, on a world W: the client records and list, the  *)
(* port table, the buffer free-lists, the events delivered so far and the   *)
(* overflow mark                                                            *)

World ==
    [client |-> client, clients |-> clients, ports |-> ports, freelist |-> freelist,
     events |-> <<>>, overflow |-> FALSE, transport |-> engine.transport,
     pfd |-> engine.pfd]

\* jack_sort_graph on the world
SortWorld(W) ==
    IF W.overflow THEN W
    ELSE LET r == jack_sort_graph(W.client, W.clients, W.ports, W.events)
         IN  [W EXCEPT !.client = r.client, !.clients = r.clients, !.ports = r.ports,
                       !.events = r.events, !.overflow = r.overflow]

\* jack_send_connection_notification: only a known, active owner hears of it
jack_send_connection_notification(W, client_id, self_id, other_id, connected) ==
    LET c == jack_client_internal_by_id(W.client, W.clients, client_id)
    IN  IF c = 0 THEN W
        ELSE IF W.client[c].active
        THEN [W EXCEPT !.events =
                 jack_deliver_event(@, W.client, c,
                     IF connected THEN "PortConnected" ELSE "PortDisconnected",
                     self_id, other_id)]
        ELSE W

RECURSIVE FindConnection(_, _, _, _)
\* the index of the first connection of list from srcport to dstport, 0 when none
FindConnection(list, srcport, dstport, i) ==
    IF i > Len(list) THEN 0
    ELSE IF list[i].source = srcport /\ list[i].destination = dstport THEN i
    ELSE FindConnection(list, srcport, dstport, i + 1)

\* the removal from the source's list alone
UnlinkSourceOnly(P, srcport, dstport, connect) ==
    [P EXCEPT ![srcport].connections = jack_slist_remove(@, connect)]

\* the two list removals of jack_port_disconnect_internal
Unlink(P, srcport, dstport, connect) ==
    [P EXCEPT ![srcport].connections = jack_slist_remove(@, connect),
              ![dstport].connections = jack_slist_remove(@, connect)]

\* jack_port_disconnect_internal before its optional sort: the world it leaves and
\* its return value
DisconnectInternal(W, srcport, dstport) ==
    LET k == FindConnection(W.ports[srcport].connections, srcport, dstport, 1)
    IN  IF k = 0 THEN [w |-> W, ret |-> -1]
        ELSE LET P2 == Unlink(W.ports, srcport, dstport,
                              W.ports[srcport].connections[k])
                 P3 == IF P2[srcport].connections = <<>>
                       THEN [P2 EXCEPT ![srcport].monitor_requests = 0]
                       ELSE P2
                 Wa == jack_send_connection_notification(
                           [W EXCEPT !.ports = P3],
                           P3[srcport].client_id, srcport, dstport, FALSE)
             IN  [w |-> jack_send_connection_notification(
                            Wa, P3[dstport].client_id, dstport, srcport, FALSE),
                  ret |-> 0]

\* a disconnect that leaves the graph unsorted
DisconnectWithoutSort(W, srcport, dstport) == DisconnectInternal(W, srcport, dstport)

\* jack_port_disconnect_internal with sort_graph TRUE
jack_port_disconnect_internal(W, srcport, dstport) ==
    LET r == DisconnectInternal(W, srcport, dstport)
    IN  [w |-> SortWorld(r.w), ret |-> r.ret]

RECURSIVE ClearLoop(_, _, _)
\* the loop of jack_port_clear_connections over the nodes of the list as it was, each
\* disconnected with sort_graph FALSE
ClearLoop(W, list, i) ==
    IF i > Len(list) THEN W
    ELSE ClearLoop(DisconnectInternal(W, list[i].source, list[i].destination).w,
                   list, i + 1)

jack_port_clear_connections(W, port) ==
    LET W1 == ClearLoop(W, W.ports[port].connections, 1)
    IN  [W1 EXCEPT !.ports[port].connections = <<>>]

\* jack_port_release: the slot is free again and its buffer back on the free-list
jack_port_release(W, port) ==
    LET bi == W.ports[port].buffer_info
    IN  IF bi # -1
        THEN [W EXCEPT !.ports[port].in_use = FALSE,
                       !.ports[port].buffer_info = -1,
                       !.freelist[W.ports[port].type_id] = jack_slist_prepend(@, bi)]
        ELSE [W EXCEPT !.ports[port].in_use = FALSE]

RECURSIVE DisconnectLoop(_, _, _)
DisconnectLoop(W, list, i) ==
    IF i > Len(list) THEN W
    ELSE DisconnectLoop(
             jack_port_release(jack_port_clear_connections(W, list[i]), list[i]),
             list, i + 1)

\* jack_client_disconnect: every port of the client disconnected and released
jack_client_disconnect(W, c) ==
    LET W1 == DisconnectLoop(W, W.client[c].ports, 1)
    IN  [W1 EXCEPT !.client[c].ports = <<>>, !.client[c].fed_by = <<>>]

\* jack_client_do_deactivate with sort_graph FALSE
Deactivated(W, c) == [W EXCEPT !.client[c].active = FALSE]

\* jack_client_do_deactivate with sort_graph TRUE
jack_client_do_deactivate(W, c) == SortWorld(Deactivated(W, c))

\* the engine loses client c: if it is the timebase client there is none any more
\* and the transport stops at frame 0
TimebaseLost(W, c) ==
    IF W.transport.timebase_client = c
    THEN [W EXCEPT !.transport = [timebase_client |-> 0, current_time |-> StoppedTime,
                                  pending_time |-> StoppedTime]]
    ELSE W

jack_zombify_client(W, c) ==
    Deactivated(jack_client_disconnect(
                    TimebaseLost([W EXCEPT !.client[c].dead = TRUE], c), c), c)

\* jack_client_delete: the record is gone
jack_client_delete(C, c) == [d \in (DOMAIN C) \ {c} |-> C[d]]

jack_remove_client(W, c) ==
    LET W1 == IF ~W.client[c].dead THEN jack_zombify_client(W, c) ELSE W
    IN  [W1 EXCEPT !.clients = jack_slist_remove(@, c),
                   !.client = jack_client_delete(@, c),
                   !.pfd = IF W.client[c].type = "ClientExternal"
                           THEN remove_client_pfd(@) ELSE @]

RECURSIVE RemoveLoop(_, _, _)
\* the loop of jack_remove_clients over the client list as it was
RemoveLoop(W, list, i) ==
    IF i > Len(list) THEN W
    ELSE LET c == list[i]
         IN  IF W.client[c].error = 0 THEN RemoveLoop(W, list, i + 1)
             ELSE IF W.client[c].error >= JACK_ERROR_WITH_SOCKETS
             THEN RemoveLoop(jack_remove_client(W, c), list, i + 1)
             ELSE RemoveLoop([jack_zombify_client(W, c) EXCEPT !.client[c].error = 0],
                             list, i + 1)

jack_remove_clients(W) ==
    IF \E i \in DOMAIN W.clients : W.client[W.clients[i]].error # 0
    THEN SortWorld(RemoveLoop(W, W.clients, 1))
    ELSE W

RECURSIVE NotifyLoop(_, _, _, _, _)
NotifyLoop(evs, C, L, i, ev) ==
    IF i > Len(L) THEN evs
    ELSE NotifyLoop(
             IF C[L[i]].active /\ C[L[i]].port_register
             THEN jack_deliver_event(evs, C, L[i], ev.type, ev.x, ev.y)
             ELSE evs,
             C, L, i + 1, ev)

\* jack_port_registration_notify: to every active client with a registration callback
jack_port_registration_notify(W, port_id, yn) ==
    [W EXCEPT !.events =
        NotifyLoop(@, W.client, W.clients, 1,
                   Event(IF yn THEN "PortRegistered" ELSE "PortUnregistered",
                         0, port_id, -1))]

RECURSIVE jack_get_free_port_from(_, _, _)
jack_get_free_port_from(P, max, i) ==
    IF i >= max THEN -1
    ELSE IF ~P[i].in_use THEN i
    ELSE jack_get_free_port_from(P, max, i + 1)

\* jack_get_free_port: the lowest slot not in use, -1 when every slot is
jack_get_free_port(P, max) == jack_get_free_port_from(P, max, 0)

RECURSIVE jack_get_port_by_name_from(_, _, _, _)
jack_get_port_by_name_from(P, max, name, i) ==
    IF i >= max THEN -1
    ELSE IF P[i].in_use /\ P[i].name = name THEN i
    ELSE jack_get_port_by_name_from(P, max, name, i + 1)

\* jack_get_port_by_name: the lowest slot in use under this name, -1 (NULL) when none
jack_get_port_by_name(P, max, name) == jack_get_port_by_name_from(P, max, name, 0)

----------------------------------------------------------------------------
(* The request handlers: the world each leaves, its status, whether it     *)
(* takes the graph lock (locks) and whether it returns with the lock held  *)
(* (held)                                                                   *)

Outcome(w, status, locks, held, port_id) ==
    [w |-> w, status |-> status, locks |-> locks, held |-> held, port_id |-> port_id]

\* jack_port_assign_buffer on a slot just filled in: the world and the return value
jack_port_assign_buffer(W, port) ==
    LET type_id == W.ports[port].type_id
    IN  IF "JackPortIsInput" \in W.ports[port].flags
        THEN [w |-> [W EXCEPT !.ports[port].offset = 0], ret |-> 0]
        ELSE IF W.freelist[type_id] = <<>>
        THEN [w |-> W, ret |-> -1]
        ELSE LET bi == Head(W.freelist[type_id])
             IN  [w |-> [W EXCEPT !.freelist[type_id] = jack_slist_remove(@, bi),
                                  !.ports[port].offset = bi,
                                  !.ports[port].buffer_info = bi],
                  ret |-> 0]

jack_port_do_register(W, client_id, name, type, flags) ==
    IF type >= n_port_types THEN Outcome(W, -1, FALSE, FALSE, -1)
    ELSE IF jack_client_internal_by_id(W.client, W.clients, client_id) = 0
    THEN Outcome(W, -1, TRUE, TRUE, -1)
    ELSE LET port_id == jack_get_free_port(W.ports, port_max)
         IN  IF port_id = -1 THEN Outcome(W, -1, TRUE, FALSE, -1)
             ELSE LET W1 == [W EXCEPT !.ports[port_id] =
                                [@ EXCEPT !.in_use = TRUE, !.name = name,
                                          !.type_id = type, !.client_id = client_id,
                                          !.flags = flags, !.latency = 0,
                                          !.monitor_requests = 0, !.locked = FALSE,
                                          !.connections = <<>>]]
                      ab == jack_port_assign_buffer(W1, port_id)
                  IN  IF ab.ret # 0 THEN Outcome(ab.w, -1, TRUE, FALSE, port_id)
                      ELSE Outcome(
                               jack_port_registration_notify(
                                   [ab.w EXCEPT !.client[client_id].ports =
                                       jack_slist_prepend(@, port_id)],
                                   port_id, TRUE),
                               0, TRUE, FALSE, port_id)

\* the port arrays with the memory that follows their last slot: the range check
\* lets port_id = port_max through, and what a read there finds is not defined
WithBeyond(W, beyond) == [W EXCEPT !.ports = (port_max :> beyond) @@ @]

\* the port arrays again: a write past their end changes none of their slots
WithoutBeyond(W) == [W EXCEPT !.ports = [p \in 0..(port_max - 1) |-> @[p]]]

jack_port_do_unregister(Wx, client_id, port_id, beyond) ==
    IF port_id < 0 \/ port_id > port_max THEN Outcome(Wx, -1, FALSE, FALSE, port_id)
    ELSE LET W == WithBeyond(Wx, beyond) IN
    IF W.ports[port_id].client_id # client_id
    THEN Outcome(Wx, -1, FALSE, FALSE, port_id)
    ELSE IF jack_client_internal_by_id(W.client, W.clients, client_id) = 0
    THEN Outcome(Wx, -1, TRUE, FALSE, port_id)
    ELSE LET W1 == jack_port_release(jack_port_clear_connections(W, port_id), port_id)
             W2 == [W1 EXCEPT !.client[client_id].ports = jack_slist_remove(@, port_id)]
         IN  Outcome(WithoutBeyond(jack_port_registration_notify(W2, port_id, FALSE)),
                     0, TRUE, FALSE, port_id)

\* the checks without those of the locks
ConnectRefusedButForLocks(W, srcport, dstport) ==
    \/ srcport = -1
    \/ dstport = -1
    \/ "JackPortIsInput" \notin W.ports[dstport].flags
    \/ "JackPortIsOutput" \notin W.ports[srcport].flags
    \/ W.ports[srcport].type_id # W.ports[dstport].type_id
    \/ LET c == jack_client_internal_by_id(W.client, W.clients,
                                           W.ports[srcport].client_id)
       IN  c = 0 \/ ~W.client[c].active
    \/ LET c == jack_client_internal_by_id(W.client, W.clients,
                                           W.ports[dstport].client_id)
       IN  c = 0 \/ ~W.client[c].active

\* the checks jack_port_do_connect makes before it takes the graph lock
ConnectRefused(W, srcport, dstport) ==
    \/ srcport = -1
    \/ dstport = -1
    \/ "JackPortIsInput" \notin W.ports[dstport].flags
    \/ "JackPortIsOutput" \notin W.ports[srcport].flags
    \/ W.ports[srcport].locked
    \/ W.ports[dstport].locked
    \/ W.ports[srcport].type_id # W.ports[dstport].type_id
    \/ LET c == jack_client_internal_by_id(W.client, W.clients,
                                           W.ports[srcport].client_id)
       IN  c = 0 \/ ~W.client[c].active
    \/ LET c == jack_client_internal_by_id(W.client, W.clients,
                                           W.ports[dstport].client_id)
       IN  c = 0 \/ ~W.client[c].active

\* both owners told before the graph is sorted
ConnectNotifyAndSort(W, srcport, dstport) ==
    LET W3 == jack_send_connection_notification(
                  W, W.ports[srcport].client_id, srcport, dstport, TRUE)
    IN  SortWorld(jack_send_connection_notification(
                      W3, W3.ports[dstport].client_id, dstport, srcport, TRUE))

\* the tail of jack_port_do_connect: the graph is sorted, then both owners are told
ConnectSortAndNotify(W, srcport, dstport) ==
    LET W3 == SortWorld(W)
        W4 == jack_send_connection_notification(
                  W3, W3.ports[srcport].client_id, srcport, dstport, TRUE)
    IN  jack_send_connection_notification(
            W4, W4.ports[dstport].client_id, dstport, srcport, TRUE)

\* no check at all of the connections the destination has
AnyNumberOfConnections(W, dstport) == FALSE

\* the check made with the graph lock held: the destination has a connection and
\* its type has no mixdown function
MultipleConnectionsRefused(W, dstport) ==
    W.ports[dstport].connections # <<>> /\ ~Mixdown(W.ports[dstport].type_id)

jack_port_do_connect(W, source_port, destination_port, id) ==
    LET srcport == jack_get_port_by_name(W.ports, port_max, source_port)
        dstport == jack_get_port_by_name(W.ports, port_max, destination_port)
    IN  IF ConnectRefused(W, srcport, dstport)
        THEN Outcome(W, -1, FALSE, FALSE, -1)
        ELSE IF MultipleConnectionsRefused(W, dstport)
        THEN Outcome(W, -1, TRUE, FALSE, -1)
        ELSE LET connection == Connection(srcport, dstport, id)
                 W1 == [W EXCEPT !.ports[dstport].connections =
                                     jack_slist_prepend(@, connection)]
                 W2 == [W1 EXCEPT !.ports[srcport].connections =
                                     jack_slist_prepend(@, connection)]
             IN  Outcome(ConnectSortAndNotify(W2, srcport, dstport),
                         0, TRUE, FALSE, -1)

jack_port_do_disconnect(W, source_port, destination_port) ==
    LET srcport == jack_get_port_by_name(W.ports, port_max, source_port)
        dstport == jack_get_port_by_name(W.ports, port_max, destination_port)
    IN  IF srcport = -1 \/ dstport = -1 THEN Outcome(W, -1, FALSE, FALSE, -1)
        ELSE LET r == jack_port_disconnect_internal(W, srcport, dstport)
             IN  Outcome(r.w, r.ret, TRUE, FALSE, -1)

jack_port_do_disconnect_all(W, port_id) ==
    IF port_id >= port_max THEN Outcome(W, -1, FALSE, FALSE, port_id)
    ELSE Outcome(SortWorld(jack_port_clear_connections(W, port_id)),
                 0, TRUE, FALSE, port_id)

jack_client_activate(W, id) ==
    IF jack_client_internal_by_id(W.client, W.clients, id) = 0
    THEN Outcome(W, -1, TRUE, FALSE, -1)
    ELSE Outcome(SortWorld([W EXCEPT !.client[id].active = TRUE]), 0, TRUE, FALSE, -1)

RECURSIVE ClearPortsLoop(_, _, _)
ClearPortsLoop(W, list, i) ==
    IF i > Len(list) THEN W
    ELSE ClearPortsLoop(jack_port_clear_connections(W, list[i]), list, i + 1)

jack_client_deactivate(W, id) ==
    IF jack_client_internal_by_id(W.client, W.clients, id) = 0
    THEN Outcome(W, -1, TRUE, FALSE, -1)
    ELSE Outcome(jack_client_do_deactivate(
                     ClearPortsLoop(TimebaseLost(W, id), W.client[id].ports, 1), id),
                 0, TRUE, FALSE, -1)

\* jack_set_timebase: timebase_client is whatever the lookup returns, NULL included
jack_set_timebase(W, id) ==
    LET found == jack_client_internal_by_id(W.client, W.clients, id)
    IN  Outcome([W EXCEPT !.transport.timebase_client = found],
                IF found = 0 THEN -1 ELSE 0, TRUE, FALSE, -1)

----------------------------------------------------------------------------
(* Spec: the engine under requests, client failures and client-side writes *)

\* the types of the clients created: the first is external, the others internal
RequestedType(id) == IF id = 1 THEN "ClientExternal" ELSE "ClientInternal"

\* a registration request: client 1 registers output ports and client 2 input
\* ports, each under its own name
Registration(c, t) ==
    [client_id |-> c, name |-> c, type |-> t,
     flags |-> IF c = 1 THEN {"JackPortIsOutput"} ELSE {"JackPortIsInput"}]

\* the registrations of Spec and SpecLatency: ports of type 0, and a port of the type
\* no engine knows
OneType == {Registration(c, t) : c \in 1..MaxClients, t \in {0, n_port_types}}

\* the registrations of SpecLock: outputs of type 1, inputs of both types
BothTypes == {Registration(1, 1), Registration(2, 0), Registration(2, 1)}

\* what an uninitialised internal_ports[i].buffer_info may hold: NULL or garbage
NullBuffer == -1
GarbageBuffer == -2

\* the offsets jack_resize_port_segment enqueues for nports buffers, in address order
BufferOffsets(nports) == [i \in 1..nports |-> i - 1]

\* jack_engine_new followed by the first jack_set_buffer_size: no client, every slot
\* free, and the first buffer of type 0 taken as the silent buffer
Init ==
    /\ clients = <<>>
    /\ client = <<>>
    /\ next_client_id = 1
    /\ port_max = PortMax
    /\ \E bi \in {NullBuffer, GarbageBuffer} :
           ports = [p \in 0..(PortMax - 1) |-> [FreePort EXCEPT !.buffer_info = bi]]
    /\ freelist = [t \in 0..(n_port_types - 1) |->
                      IF t = 0 THEN Tail(BufferOffsets(PortMax))
                      ELSE BufferOffsets(PortMax)]
    /\ events = <<>>
    /\ op = Op("none", 0, <<>>)
    /\ overflow = FALSE
    /\ client_lock = FALSE
    /\ hist = NoHist
    /\ engine = [EngineNew EXCEPT !.buffer_size = 1,
                                  !.shm_size = [t \in 0..(n_port_types - 1) |-> PortMax],
                                  !.silent_buffer = Head(BufferOffsets(PortMax))]

\* the state a handler leaves
Commit(W, o, lock, h) ==
    /\ client' = W.client
    /\ clients' = W.clients
    /\ ports' = W.ports
    /\ freelist' = W.freelist
    /\ events' = W.events
    /\ overflow' = W.overflow
    /\ op' = o
    /\ client_lock' = lock
    /\ hist' = h
    /\ engine' = [engine EXCEPT !.transport = W.transport, !.pfd = W.pfd]
    /\ UNCHANGED port_max

\* a handler that reaches jack_lock_graph needs the lock free
Handled(r, type, args, h) ==
    /\ r.locks => ~client_lock
    /\ Commit(r.w, Op(type, r.status, args), client_lock \/ r.held, h)
    /\ UNCHANGED next_client_id

\* setup_client with a name no client has: jack_client_internal_new, then the
\* client is prepended to the list
CreateClient ==
    /\ op.type = "none"
    /\ ~overflow /\ ~client_lock
    /\ next_client_id <= MaxClients
    /\ \E type \in {RequestedType(next_client_id)} :
        /\ client' = (next_client_id :> NewClient(type)) @@ client
        /\ clients' = jack_slist_prepend(clients, next_client_id)
        /\ engine' = IF type = "ClientExternal"
                     THEN [engine EXCEPT !.pfd = setup_client_pfd(@)]
                     ELSE engine
        /\ op' = Op("NewClient", 0, <<next_client_id>>)
    /\ next_client_id' = next_client_id + 1
    /\ events' = <<>>
    /\ hist' = NoHist
    /\ UNCHANGED <<port_max, ports, freelist, overflow, client_lock>>

\* the failures of handle_new_client after setup_client has prepended the client
CreationFailures(type) ==
    IF type = "ClientExternal" THEN {"write_result", "write_port_type"}
    ELSE {"initialize", "write_result"}

\* handle_new_client for a client whose creation fails after setup_client has
\* prepended it to the list: jack_client_delete frees the record and nothing else
\* is undone.  A failed write of a port type does not end the handler, which
\* returns 0
CreateClientFails ==
    /\ op.type = "none"
    /\ ~overflow /\ ~client_lock
    /\ next_client_id <= MaxClients
    /\ \E type \in {RequestedType(next_client_id)} :
       \E failure \in CreationFailures(type) :
        /\ client' = jack_client_delete((next_client_id :> NewClient(type)) @@ client,
                                        next_client_id)
        /\ clients' = jack_slist_prepend(clients, next_client_id)
        /\ engine' = IF type = "ClientExternal"
                     THEN [engine EXCEPT !.pfd = setup_client_pfd(@)]
                     ELSE engine
        /\ op' = Op("NewClientFailed", IF failure = "write_port_type" THEN 0 ELSE -1,
                    <<next_client_id, failure>>)
    /\ next_client_id' = next_client_id + 1
    /\ events' = <<>>
    /\ hist' = NoHist
    /\ UNCHANGED <<port_max, ports, freelist, overflow, client_lock>>

ActivateClient ==
    /\ op.type = "none"
    /\ ~overflow
    /\ \E id \in 1..MaxClients :
       \E r \in {jack_client_activate(World, id)} :
           Handled(r, "ActivateClient", <<id>>, NoHist)

DeactivateClient ==
    /\ op.type = "none"
    /\ ~overflow
    /\ \E id \in 1..MaxClients :
       \E r \in {jack_client_deactivate(World, id)} :
           Handled(r, "DeactivateClient", <<id>>, NoHist)

SetTimeBaseClient ==
    /\ op.type = "none"
    /\ ~overflow
    /\ \E id \in 1..MaxClients :
       \E r \in {jack_set_timebase(World, id)} :
           Handled(r, "SetTimeBaseClient", <<id>>, NoHist)

\* the timebase client sets the pending transport time in the shared control block
ClientSetTransport ==
    /\ op.type = "none"
    /\ ~overflow
    /\ engine.transport.timebase_client \in DOMAIN client
    /\ ~client[engine.transport.timebase_client].dead
    /\ engine.transport.pending_time # RollingTime
    /\ engine' = [engine EXCEPT !.transport.pending_time = RollingTime]
    /\ op' = Op("ClientSetTransport", 0, <<engine.transport.timebase_client>>)
    /\ events' = <<>>
    /\ hist' = NoHist
    /\ UNCHANGED <<clients, client, next_client_id, port_max, ports, freelist,
                   overflow, client_lock>>

\* the engine before a registration that succeeded in slot port_id
RegHistOf(client_id, port_id) ==
    [NoHist EXCEPT !.registered = TRUE, !.ports = ports, !.client = client,
                   !.freelist = freelist, !.args = <<client_id, port_id>>]

\* the engine before a registration whose port this unregistration has just released
RegHistUndone(client_id, port_id) ==
    IF hist.registered /\ hist.args = <<client_id, port_id>>
    THEN [hist EXCEPT !.registered = FALSE, !.unregistered = TRUE]
    ELSE NoHist

RegisterPort(Requested) ==
    /\ op.type = "none"
    /\ ~overflow
    /\ \E q \in Requested :
       \E r \in {jack_port_do_register(World, q.client_id, q.name, q.type, q.flags)} :
           Handled(r, "RegisterPort", <<q.client_id, q.name, q.type, r.port_id>>,
                   IF r.status = 0 THEN RegHistOf(q.client_id, r.port_id) ELSE NoHist)

UnRegisterPort ==
    /\ op.type = "none"
    /\ ~overflow
    /\ \E client_id \in 1..MaxClients, port_id \in 0..(PortMax - 1) :
       \E r \in {jack_port_do_unregister(World, client_id, port_id, FreePort)} :
           Handled(r, "UnRegisterPort", <<client_id, port_id>>,
                   IF r.status = 0 THEN RegHistUndone(client_id, port_id) ELSE NoHist)

\* what the memory after the last port slot may hold: any owner, a buffer or none
BeyondPorts ==
    {[FreePort EXCEPT !.client_id = c, !.buffer_info = bi] :
        c \in 0..MaxClients, bi \in {NullBuffer, GarbageBuffer}}

\* an UnRegisterPort request with a port id of the array, port_max or port_max + 1,
\* explored while no free-list is longer than the port array
UnRegisterAnyPort ==
    /\ op.type = "none"
    /\ ~overflow
    /\ \A t \in 0..(n_port_types - 1) : Len(freelist[t]) <= PortMax
    /\ \E client_id \in 1..MaxClients, port_id \in 0..(PortMax + 1),
          beyond \in BeyondPorts :
       \E r \in {jack_port_do_unregister(World, client_id, port_id, beyond)} :
           Handled(r, "UnRegisterAnyPort", <<client_id, port_id>>, NoHist)

\* the connection records in use
ConnectionIds ==
    UNION {{ports[p].connections[i].id : i \in 1..Len(ports[p].connections)} :
           p \in 0..(port_max - 1)}

\* the port graph before a connect of two ports not yet connected
HistOf(source_port, destination_port) ==
    LET srcport == jack_get_port_by_name(ports, port_max, source_port)
        dstport == jack_get_port_by_name(ports, port_max, destination_port)
    IN  IF FindConnection(ports[srcport].connections, srcport, dstport, 1) = 0
        THEN [NoHist EXCEPT !.valid = TRUE, !.ports = ports,
                            !.args = <<source_port, destination_port>>]
        ELSE NoHist

\* the port graph before a connect that this disconnect has just undone
HistUndone(source_port, destination_port) ==
    IF hist.valid /\ hist.args = <<source_port, destination_port>>
    THEN [hist EXCEPT !.valid = FALSE, !.undone = TRUE]
    ELSE NoHist

\* the lowest connection record not in use, 0 when MaxConns are
FreeConnection ==
    IF \A id \in 1..MaxConns : id \in ConnectionIds THEN 0
    ELSE CHOOSE id \in 1..MaxConns :
             /\ id \notin ConnectionIds
             /\ \A smaller \in 1..(id - 1) : smaller \in ConnectionIds

ConnectPorts ==
    /\ op.type = "none"
    /\ ~overflow
    /\ \E source_port \in 1..NumNames, destination_port \in 1..NumNames :
       \E r \in {jack_port_do_connect(World, source_port, destination_port,
                                      FreeConnection)} :
           /\ r.status = 0 => FreeConnection # 0
           /\ Handled(r, "ConnectPorts", <<source_port, destination_port>>,
                      IF r.status = 0 THEN HistOf(source_port, destination_port)
                      ELSE NoHist)

DisconnectPorts ==
    /\ op.type = "none"
    /\ ~overflow
    /\ \E source_port \in 1..NumNames, destination_port \in 1..NumNames :
       \E r \in {jack_port_do_disconnect(World, source_port, destination_port)} :
           Handled(r, "DisconnectPorts", <<source_port, destination_port>>,
                   IF r.status = 0 THEN HistUndone(source_port, destination_port)
                   ELSE NoHist)

DisconnectPort ==
    /\ op.type = "none"
    /\ ~overflow
    /\ \E port_id \in 0..(PortMax - 1) :
       \E r \in {jack_port_do_disconnect_all(World, port_id)} :
           Handled(r, "DisconnectPort", <<port_id>>, NoHist)

\* handle_external_client_request reads a short request from an external client
RequestReadError ==
    /\ op.type = "none"
    /\ ~overflow /\ ~client_lock
    /\ \E c \in Range(clients) :
        /\ client[c].type = "ClientExternal"
        /\ client[c].error < MaxErrors
        /\ client' = [client EXCEPT ![c].error = @ + 1]
        /\ op' = Op("RequestReadError", -1, <<c>>)
    /\ events' = <<>>
    /\ hist' = NoHist
    /\ UNCHANGED <<engine, clients, next_client_id, port_max, ports, freelist, overflow,
                   client_lock>>

\* jack_engine_post_process finds a client in error: jack_remove_clients
PostProcess ==
    /\ op.type = "none"
    /\ ~overflow /\ ~client_lock
    /\ \E c \in Range(clients) : client[c].error # 0
    /\ \E W \in {jack_remove_clients(World)} :
           Commit(W, Op("PostProcess", 0, <<>>), client_lock, NoHist)
    /\ UNCHANGED next_client_id

\* handle_client_socket_error on the request socket of an external client
SocketError ==
    /\ op.type = "none"
    /\ ~overflow /\ ~client_lock
    /\ \E c \in Range(clients) :
        /\ client[c].type = "ClientExternal"
        /\ \E W \in {SortWorld(jack_remove_client(World, c))} :
               Commit(W, Op("SocketError", 0, <<c>>), client_lock, NoHist)
    /\ UNCHANGED next_client_id

\* handle_unload_client for the name of a client of the list
UnloadClient ==
    /\ op.type = "none"
    /\ ~overflow /\ ~client_lock
    /\ \E c \in Range(clients) :
       \E W \in {jack_remove_client(World, c)} :
           Commit(W, Op("UnloadClient", 0, <<c>>), client_lock, NoHist)
    /\ UNCHANGED next_client_id

\* a write of the owning client to the shared descriptor of one of its ports
ClientWrite(type, args, P) ==
    /\ ports' = P
    /\ op' = Op(type, 0, args)
    /\ events' = <<>>
    /\ hist' = NoHist
    /\ UNCHANGED <<engine, clients, client, next_client_id, port_max, freelist, overflow,
                   client_lock>>

\* jack_port_lock and jack_port_unlock of the client library
PortLock ==
    /\ op.type = "none"
    /\ ~overflow
    /\ \E p \in 0..(PortMax - 1), locked \in BOOLEAN :
        /\ ports[p].in_use
        /\ ports[p].locked # locked
        /\ ClientWrite("PortLock", <<p>>, [ports EXCEPT ![p].locked = locked])

\* jack_port_set_latency of the client library
PortSetLatency ==
    /\ op.type = "none"
    /\ ~overflow
    /\ \E p \in 0..(PortMax - 1), latency \in 0..MaxLatency :
        /\ ports[p].in_use
        /\ ports[p].latency # latency
        /\ ClientWrite("PortSetLatency", <<p>>, [ports EXCEPT ![p].latency = latency])

\* jack_set_port_registration_callback of the client library, before activation
SetPortRegistrationCallback ==
    /\ op.type = "none"
    /\ ~overflow
    /\ \E c \in Range(clients) :
        /\ ~client[c].active
        /\ ~client[c].port_register
        /\ client' = [client EXCEPT ![c].port_register = TRUE]
        /\ op' = Op("SetPortRegistrationCallback", 0, <<c>>)
    /\ events' = <<>>
    /\ hist' = NoHist
    /\ UNCHANGED <<engine, clients, next_client_id, port_max, ports, freelist, overflow,
                   client_lock>>

----------------------------------------------------------------------------
(* Buffer-size changes *)

\* the size of one buffer of a type, in samples: both types scale the buffer size by 1
OneBuffer(type_id, buffer_size) == 1 * buffer_size

RECURSIVE DeliverToAllLoop(_, _, _, _, _, _, _)
DeliverToAllLoop(evs, C, L, i, type, x, y) ==
    IF i > Len(L) THEN evs
    ELSE DeliverToAllLoop(jack_deliver_event(evs, C, L[i], type, x, y), C, L, i + 1,
                          type, x, y)

\* jack_deliver_event_to_all: the event goes to every client of the list, in order
jack_deliver_event_to_all(W, type, x, y) ==
    [W EXCEPT !.events = DeliverToAllLoop(@, W.client, W.clients, 1, type, x, y)]

\* jack_resize_port_segment, the shared-memory call succeeding: st = [w, engine]; the
\* segment is resized to nports buffers and one buffer record per buffer of the new
\* segment is appended to the type's free-list, in address order
jack_resize_port_segment(st, t, nports) ==
    LET one_buffer == OneBuffer(t, st.engine.buffer_size)
        size == nports * one_buffer
        fresh == [k \in 1..nports |-> (k - 1) * one_buffer]
    IN  [w |-> jack_deliver_event_to_all(
                   [st.w EXCEPT !.freelist[t] = @ \o fresh], "NewPortType", t, -1),
         engine |-> [st.engine EXCEPT !.shm_size[t] = size]]

RECURSIVE ResizeLoop(_, _, _)
ResizeLoop(st, i, nports) ==
    IF i >= n_port_types THEN st
    ELSE ResizeLoop(jack_resize_port_segment(st, i, nports), i + 1, nports)

\* jack_set_buffer_size: every type's segment is resized, the first call takes the
\* head of the first type's free-list as the silent buffer, then BufferSizeChange
jack_set_buffer_size(W, E, nframes, nports) ==
    LET st == ResizeLoop([w |-> W, engine |-> [E EXCEPT !.buffer_size = nframes]],
                         0, nports)
        st2 == IF E.silent_buffer = -1
               THEN [w |-> [st.w EXCEPT !.freelist[0] = Tail(@)],
                     engine |-> [st.engine EXCEPT
                                    !.silent_buffer = Head(st.w.freelist[0])]]
               ELSE st
    IN  [w |-> jack_deliver_event_to_all(st2.w, "BufferSizeChange", -1, -1),
         engine |-> st2.engine]

\* the driver sets the buffer size through engine->set_buffer_size
SetBufferSize ==
    /\ op.type = "none"
    /\ ~overflow /\ ~client_lock
    /\ Len(freelist[0]) < MaxBuffers
    /\ \E nframes \in 1..MaxFrames :
       \E r \in {jack_set_buffer_size(World, engine, nframes, port_max)} :
           /\ client' = r.w.client
           /\ clients' = r.w.clients
           /\ ports' = r.w.ports
           /\ freelist' = r.w.freelist
           /\ events' = r.w.events
           /\ overflow' = r.w.overflow
           /\ engine' = [r.engine EXCEPT !.transport = r.w.transport, !.pfd = r.w.pfd]
           /\ op' = Op("SetBufferSize", 0, <<nframes>>)
    /\ hist' = NoHist
    /\ UNCHANGED <<next_client_id, port_max, client_lock>>

\* jack_engine_new: no client, every slot free, no port segment yet
InitBuffer ==
    /\ clients = <<>>
    /\ client = <<>>
    /\ next_client_id = 1
    /\ port_max = PortMax
    /\ \E bi \in {NullBuffer, GarbageBuffer} :
           ports = [p \in 0..(PortMax - 1) |-> [FreePort EXCEPT !.buffer_info = bi]]
    /\ freelist = [t \in 0..(n_port_types - 1) |-> <<>>]
    /\ events = <<>>
    /\ op = Op("none", 0, <<>>)
    /\ overflow = FALSE
    /\ client_lock = FALSE
    /\ hist = NoHist
    /\ engine = EngineNew

----------------------------------------------------------------------------
(* The audio thread *)

\* the first list position from i on that holds an internal client, or the end
RECURSIVE SubgraphEnd(_, _, _)
SubgraphEnd(C, L, i) ==
    IF i > Len(L) \/ jack_client_is_internal(C, L[i]) THEN i
    ELSE SubgraphEnd(C, L, i + 1)

\* what the clients of a triggered external subgraph do to their control blocks: a
\* client that is woken stamps awake_at and runs; one that finishes wakes the next
\* one; done when the last one has written to the subgraph's wait fd
RECURSIVE SubgraphRun(_, _, _, _, _)
SubgraphRun(C, L, i, end, beh) ==
    IF i >= end THEN [client |-> C, done |-> TRUE]
    ELSE LET c == L[i]
         IN  IF ~C[c].active \/ C[c].dead THEN SubgraphRun(C, L, i + 1, end, beh)
             ELSE IF beh[c] = "asleep" THEN [client |-> C, done |-> FALSE]
             ELSE IF beh[c] = "late"
             THEN [client |-> [C EXCEPT ![c].awake_at = 1, ![c].state = "Running"],
                   done |-> FALSE]
             ELSE SubgraphRun([C EXCEPT ![c].awake_at = 1, ![c].state = "Finished"],
                              L, i + 1, end, beh)

\* one client dispatched by jack_engine_process: the bytes written to its
\* subgraph_start_fd and read from its subgraph_wait_fd, the list position the
\* loop goes on with (0 for NULL), and what it added to engine->process_errors
Dispatch(c, wrote, read, node, errors) ==
    [client |-> c, wrote |-> wrote, read |-> read, node |-> node, errors |-> errors]

\* the read that takes the subgraph's byte off the wait fd: the bytes consumed
SkipWaitByte(ok) == 0
ReadWaitByte(ok) == IF ok THEN 1 ELSE 0

\* jack_process_internal: st = [w, process_errors, dispatched], the result adds the
\* next node (0 for NULL)
jack_process_internal(st, i, beh) ==
    LET c == st.w.clients[i]
        failed == st.w.client[c].process /\ beh[c] = "fails"
        node == IF failed THEN 0 ELSE i + 1
    IN  [w |-> [st.w EXCEPT !.client[c].state = IF failed THEN "Running"
                                                 ELSE "Finished"],
         process_errors |-> st.process_errors + (IF failed THEN 1 ELSE 0),
         dispatched |-> Append(st.dispatched, Dispatch(c, 0, 0, node,
                                                   IF failed THEN 1 ELSE 0)),
         node |-> node]

\* jack_process_external, the engine polling the wait fd itself
jack_process_external(st, i, beh) ==
    LET c == st.w.clients[i]
        L == st.w.clients
        C1 == [st.w.client EXCEPT ![c].state = "Triggered", ![c].awake_at = 0]
        end == SubgraphEnd(C1, L, i)
        run == SubgraphRun(C1, L, i, end, beh)
    IN  IF beh[c] = "write_fails"
        THEN [w |-> [st.w EXCEPT !.client = C1],
              process_errors |-> st.process_errors + 1,
              dispatched |-> Append(st.dispatched, Dispatch(c, 0, 0, 0, 1)),
              node |-> 0]
        ELSE IF ~run.done
        THEN [w |-> [st.w EXCEPT !.client =
                        IF run.client[c].awake_at > 0
                        THEN [run.client EXCEPT ![c].timed_out = @ + 1]
                        ELSE run.client],
              process_errors |-> st.process_errors + 1,
              dispatched |-> Append(st.dispatched, Dispatch(c, 1, 0, 0, 1)),
              node |-> 0]
        ELSE IF beh[c] = "read_fails"
        THEN [w |-> [st.w EXCEPT !.client = [run.client EXCEPT ![c].error = @ + 1]],
              process_errors |-> st.process_errors,
              dispatched |-> Append(st.dispatched,
                                    Dispatch(c, 1, ReadWaitByte(FALSE), 0, 0)),
              node |-> 0]
        ELSE [w |-> [st.w EXCEPT !.client = run.client],
              process_errors |-> st.process_errors,
              dispatched |-> Append(st.dispatched,
                                    Dispatch(c, 1, ReadWaitByte(TRUE), end, 0)),
              node |-> end]

RECURSIVE ProcessLoop(_, _, _)
ProcessLoop(st, node, beh) ==
    IF st.process_errors # 0 \/ node = 0 \/ node > Len(st.w.clients) THEN st
    ELSE LET c == st.w.clients[node]
             nx == IF ~st.w.client[c].active \/ st.w.client[c].dead
                   THEN [w |-> st.w, process_errors |-> st.process_errors,
                         dispatched |-> st.dispatched, node |-> node + 1]
                   ELSE IF jack_client_is_internal(st.w.client, c)
                   THEN jack_process_internal(st, node, beh)
                   ELSE jack_process_external(st, node, beh)
         IN  ProcessLoop([w |-> nx.w, process_errors |-> nx.process_errors,
                          dispatched |-> nx.dispatched],
                         nx.node, beh)

\* jack_engine_process: every control block is reset, then the clients run in list
\* order until one fails; the world and engine->process_errors
jack_engine_process(W, beh) ==
    LET W0 == [W EXCEPT !.client = [c \in DOMAIN W.client |->
                   [W.client[c] EXCEPT !.state = "NotTriggered", !.timed_out = 0]]]
    IN  ProcessLoop([w |-> W0, process_errors |-> 0, dispatched |-> <<>>], 1, beh)

RECURSIVE PostProcessLoop(_, _, _)
\* the loop of jack_engine_post_process: timed_out++ is evaluated, and its old value
\* tested, only for a client that woke and has neither finished nor stayed untriggered
PostProcessLoop(C, L, i) ==
    IF i > Len(L) THEN C
    ELSE LET c == L[i]
         IN  IF ~jack_client_is_internal(C, c) /\ C[c].process
                 /\ C[c].awake_at # 0 /\ C[c].state \in {"Triggered", "Running"}
             THEN PostProcessLoop(
                      [C EXCEPT ![c].timed_out = @ + 1,
                                ![c].error = IF C[c].timed_out # 0 THEN @ + 1 ELSE @],
                      L, i + 1)
             ELSE PostProcessLoop(C, L, i + 1)

\* jack_engine_post_process: the pending transport time becomes the current one,
\* then the clients are looked at
jack_engine_post_process(W) ==
    jack_remove_clients([W EXCEPT !.transport.current_time = W.transport.pending_time,
                                  !.client = PostProcessLoop(@, W.clients, 1)])

\* jack_deliver_event with the outcome io of the socket I/O: the answer is read only
\* while the client has no error, and the status byte tested is the client's answer
\* when it was read, and whatever the stack held (nonzero iff garbage) when not
DeliverEventIO(W, c, type, x, y, io, garbage) ==
    IF W.client[c].dead THEN W
    ELSE IF jack_client_is_internal(W.client, c)
    THEN [W EXCEPT !.events = Append(@, Event(type, c, x, y))]
    ELSE LET e1 == W.client[c].error + (IF io = "write_fails" THEN 1 ELSE 0)
             answered == e1 = 0 /\ io # "read_fails"
             e2 == e1 + (IF e1 = 0 /\ io = "read_fails" THEN 1 ELSE 0)
             bad == IF answered THEN io = "bad_status" ELSE garbage
         IN  [W EXCEPT !.events = IF io = "write_fails" THEN @
                                  ELSE Append(@, Event(type, c, x, y)),
                       !.client[c].error = e2 + (IF bad THEN 1 ELSE 0)]

RECURSIVE NotifyDelayLoop(_, _, _, _)
NotifyDelayLoop(W, i, io, garbage) ==
    IF i > Len(W.clients) THEN W
    ELSE NotifyDelayLoop(DeliverEventIO(W, W.clients[i], "XRun", -1, -1,
                                        io[W.clients[i]], garbage),
                         i + 1, io, garbage)

\* the external clients an event reached, or should have, with failing socket I/O
FailedDeliveries(W, io) ==
    {c \in Range(W.clients) : /\ ~W.client[c].dead
                              /\ ~jack_client_is_internal(W.client, c)
                              /\ io[c] \in {"write_fails", "read_fails"}}

\* jack_engine_notify_clients_about_delay: st = [w, audio]; the graph lock is taken
\* with jack_lock_graph, XRun goes to every client, the lock is released
jack_engine_notify_clients_about_delay(st, io, garbage) ==
    [w |-> NotifyDelayLoop(st.w, 1, io, garbage),
     audio |-> [st.audio EXCEPT !.lock = "blocking", !.unlock = @ + 1,
                                !.failed = FailedDeliveries(st.w, io)]]

\* the cycle thrown away, but leaving through the unlock label
NullCycleAndUnlock(A) ==
    [A EXCEPT !.lock = "try_failed", !.null_cycle = @ + 1, !.ret = 0, !.unlock = @ + 1]

\* the try-lock of jack_run_cycle failed: the cycle is thrown away
NullCycle(A) == [A EXCEPT !.lock = "try_failed", !.null_cycle = @ + 1, !.ret = 0]

\* jack_run_cycle when the delay exceeds the spare time: [w, engine], E the engine
\* with this path's audio record started
ExcessiveDelay(W, E, fault, io, garbage) ==
    LET n == E.consecutive_excessive_delays + 1
        E1 == [E EXCEPT !.consecutive_excessive_delays = n]
        A1 == [E.audio EXCEPT !.stop = 1]
        nt == jack_engine_notify_clients_about_delay([w |-> W, audio |-> A1], io,
                                                     garbage)
    IN  IF n > MaxExcessiveDelays
        THEN [w |-> W, engine |-> [E1 EXCEPT !.audio.ret = -1]]
        ELSE IF fault = "stop"
        THEN [w |-> W, engine |-> [E1 EXCEPT !.audio = [A1 EXCEPT !.ret = -1]]]
        ELSE [w |-> nt.w,
              engine |-> [E1 EXCEPT !.audio =
                             [nt.audio EXCEPT !.start = 1,
                                              !.ret = IF fault = "start" THEN -1
                                                      ELSE 0]]]

\* the calls as above, but the driver restarted before the graph lock is released
CallsRestartingLocked(fault, failed) ==
    IF fault = "read" THEN <<"read", "unlock">>
    ELSE IF failed
    THEN <<"read", "process", "stop", "post_process", "start", "unlock">>
    ELSE IF fault = "write" THEN <<"read", "process", "write", "unlock">>
    ELSE <<"read", "process", "write", "post_process", "unlock">>

\* the calls jack_run_cycle makes once it holds the graph lock, in their order:
\* fault is the driver call that fails, failed says that jack_engine_process did
CycleCalls(fault, failed) ==
    IF fault = "read" THEN <<"read", "unlock">>
    ELSE IF failed
    THEN <<"read", "process", "stop", "post_process", "unlock", "start">>
    ELSE IF fault = "write" THEN <<"read", "process", "write", "unlock">>
    ELSE <<"read", "process", "write", "post_process", "unlock">>

\* jack_run_cycle with the try-lock succeeding: read, process, write, post-process,
\* unlock
LockedCycle(W, E, fault, beh) ==
    LET A1 == [E.audio EXCEPT !.lock = "try", !.read = 1,
                              !.calls = CycleCalls(fault, FALSE)]
        pr == jack_engine_process(W, beh)
        failed == pr.process_errors > 0
        A2 == [A1 EXCEPT !.process = 1, !.dispatched = pr.dispatched,
                         !.calls = CycleCalls(fault, failed),
                         !.stop = IF failed THEN 1 ELSE 0,
                         !.write = IF failed THEN 0 ELSE 1]
        E2 == [E EXCEPT !.process_errors = pr.process_errors]
    IN  IF fault = "read"
        THEN [w |-> W, engine |-> [E EXCEPT !.audio = [A1 EXCEPT !.unlock = 1,
                                                                 !.ret = -1]]]
        ELSE IF ~failed /\ fault = "write"
        THEN [w |-> pr.w, engine |-> [E2 EXCEPT !.audio = [A2 EXCEPT !.unlock = 1,
                                                                    !.ret = -1]]]
        ELSE [w |-> jack_engine_post_process(pr.w),
              engine |-> [E2 EXCEPT !.audio =
                             [A2 EXCEPT !.post_process = 1, !.unlock = 1, !.ret = 0,
                                        !.start = IF failed THEN 1 ELSE 0]]]

\* jack_run_cycle: locked says whether another thread holds the graph lock
jack_run_cycle(W, E, locked, excessive, fault, beh, io, garbage) ==
    LET E0 == [E EXCEPT !.audio = AudioDid("jack_run_cycle", -1, "none"),
                        !.watchdog = Stamped(@)]
    IN  IF excessive THEN ExcessiveDelay(W, E0, fault, io, garbage)
        ELSE LET E1 == [E0 EXCEPT !.consecutive_excessive_delays = 0]
             IN  IF locked THEN [w |-> W, engine |-> [E1 EXCEPT !.audio = NullCycle(@)]]
                 ELSE LockedCycle(W, E1, fault, beh)

\* what a client does when its turn comes in a cycle; a write to a subgraph_start_fd
\* that was never bound (-1) fails
Behaviours(C, c) ==
    IF ~C[c].active \/ C[c].dead THEN {"finish"}
    ELSE IF jack_client_is_internal(C, c) THEN {"finish", "fails"}
    ELSE IF C[c].subgraph_start_fd = -1 THEN {"write_fails"}
    ELSE {"finish", "late", "asleep", "write_fails", "read_fails"}

\* what the event socket of a client does when an event is delivered
EventIO(C, c) ==
    IF C[c].dead \/ jack_client_is_internal(C, c) THEN {"ok"}
    ELSE {"ok", "write_fails", "read_fails", "bad_status"}

\* the state an audio-thread step leaves
CommitAudio(r) ==
    /\ client' = r.w.client
    /\ clients' = r.w.clients
    /\ ports' = r.w.ports
    /\ freelist' = r.w.freelist
    /\ events' = r.w.events
    /\ overflow' = r.w.overflow
    /\ engine' = [r.engine EXCEPT !.transport = r.w.transport, !.pfd = r.w.pfd]
    /\ UNCHANGED <<op, hist, next_client_id, port_max, client_lock>>

\* the outcomes of the socket I/O of one event delivered to every client
EventIOs(C) ==
    {io \in [DOMAIN C -> UNION {EventIO(C, c) : c \in DOMAIN C}] :
        \A c \in DOMAIN C : io[c] \in EventIO(C, c)}

\* what the clients do in one cycle
CycleBehaviours(C) ==
    {beh \in [DOMAIN C -> UNION {Behaviours(C, c) : c \in DOMAIN C}] :
        \A c \in DOMAIN C : beh[c] \in Behaviours(C, c)}

\* every client finishes, every socket works
AllFinish(C) == [c \in DOMAIN C |-> "finish"]
AllOk(C) == [c \in DOMAIN C |-> "ok"]

\* jack_main_thread: driver->wait returned a period, jack_run_cycle runs; the path
\* that takes the graph lock with jack_lock_graph runs once the lock is free.  Cycles
\* with an excessive delay are explored while fewer than maxd of them were counted
RunCycleUpTo(maxd) ==
    /\ engine.audio.type = "wait"
    /\ ~overflow
    /\ \/ /\ ~client_lock
          /\ engine.consecutive_excessive_delays < maxd
          /\ \A c \in DOMAIN client : client[c].error < MaxErrors
          /\ \E fault \in {"none", "stop", "start"}, garbage \in BOOLEAN,
                io \in EventIOs(client) :
                 CommitAudio(jack_run_cycle(World, engine, client_lock, TRUE, fault,
                                            AllFinish(client), io, garbage))
       \/ \E fault \in {"none", "read", "write"}, beh \in CycleBehaviours(client) :
              CommitAudio(jack_run_cycle(World, engine, client_lock, FALSE, fault,
                                         beh, AllOk(client), FALSE))

RunCycle == RunCycleUpTo(MaxDelays)

\* cycles up to the one in which the count of excessive delays passes its limit
RunCycleOftenDelayed == RunCycleUpTo(MaxExcessiveDelays + 1)

\* jack_main_thread: driver->wait returned 0, the driver had an xrun and restarted
XRun ==
    /\ engine.audio.type = "wait"
    /\ ~overflow /\ ~client_lock
    /\ \A c \in DOMAIN client : client[c].error < MaxErrors
    /\ \E garbage \in BOOLEAN, io \in EventIOs(client) :
       \E nt \in {jack_engine_notify_clients_about_delay(
                      [w |-> World, audio |-> AudioDid("xrun", 0, "none")],
                      io, garbage)} :
           CommitAudio([w |-> nt.w, engine |-> [engine EXCEPT !.audio = nt.audio]])

\* jack_main_thread is back in driver->wait, unless jack_run_cycle failed and the
\* thread has left its loop
DriverWait ==
    /\ engine.audio.type # "wait"
    /\ engine.audio.ret = 0
    /\ ~overflow
    /\ engine' = [engine EXCEPT !.audio = InDriverWait]
    /\ events' = <<>>
    /\ UNCHANGED <<clients, client, next_client_id, port_max, ports, freelist, op,
                   overflow, client_lock, hist>>

\* jack_client_activate has taken the graph lock
ActivateBegin ==
    /\ op.type = "none"
    /\ ~overflow /\ ~client_lock
    /\ \E id \in 1..MaxClients : op' = Op("ActivateClientLocked", 0, <<id>>)
    /\ client_lock' = TRUE
    /\ UNCHANGED <<engine, clients, client, next_client_id, port_max, ports, freelist,
                   events, overflow, hist>>

\* jack_client_activate marks the client active, sorts the graph and unlocks
ActivateEnd ==
    /\ op.type = "ActivateClientLocked"
    /\ \E r \in {jack_client_activate(World, op.args[1])} :
           Commit(r.w, Op("ActivateClient", r.status, op.args), FALSE, NoHist)
    /\ UNCHANGED next_client_id

\* setup_client is comparing the requested name, which is the name of client c,
\* with the names of the clients of the list; it has not taken the graph lock
SetupClientNames ==
    /\ op.type = "none"
    /\ ~overflow
    /\ \E c \in Range(clients) : op' = Op("setup_client_names", 0, <<c>>)
    /\ UNCHANGED <<engine, clients, client, next_client_id, port_max, ports, freelist,
                   events, overflow, client_lock, hist>>

\* setup_client has found the name on the list and returns NULL
SetupClientRefused ==
    /\ op.type = "setup_client_names"
    /\ jack_slist_find(clients, op.args[1])
    /\ op' = Op("setup_client", -1, op.args)
    /\ UNCHANGED <<engine, clients, client, next_client_id, port_max, ports, freelist,
                   events, overflow, client_lock, hist>>

\* the engine with its clients created:
\* MaxClients clients of either kind, the external ones with or without a process
\* callback
InitCycle ==
    /\ clients = [i \in 1..MaxClients |-> MaxClients + 1 - i]
    /\ \E types \in [1..MaxClients -> {"ClientInternal", "ClientExternal"}],
          procs \in [1..MaxClients -> BOOLEAN] :
           client = [c \in 1..MaxClients |->
                        [NewClient(types[c]) EXCEPT !.process = procs[c]]]
    /\ next_client_id = MaxClients + 1
    /\ port_max = PortMax
    /\ ports = [p \in 0..(PortMax - 1) |-> FreePort]
    /\ freelist = [t \in 0..(n_port_types - 1) |->
                      IF t = 0 THEN Tail(BufferOffsets(PortMax))
                      ELSE BufferOffsets(PortMax)]
    /\ events = <<>>
    /\ op = Op("none", 0, <<>>)
    /\ overflow = FALSE
    /\ client_lock = FALSE
    /\ hist = NoHist
    /\ engine = [EngineNew EXCEPT !.buffer_size = 1,
                                  !.shm_size = [t \in 0..(n_port_types - 1) |-> PortMax],
                                  !.silent_buffer = Head(BufferOffsets(PortMax)),
                                  !.pfd = PollSetOf(client)]

\* an engine with NumProcessClients clients of either kind on its list, any of them
\* active, as the jack_sort_graph of the latest activation or deactivation left it
InitProcess ==
    /\ clients = [i \in 1..NumProcessClients |-> NumProcessClients + 1 - i]
    /\ \E types \in [1..NumProcessClients -> {"ClientInternal", "ClientExternal"}],
          actives \in [1..NumProcessClients -> BOOLEAN] :
           client = jack_sort_graph(
                        [c \in 1..NumProcessClients |->
                            [NewClient(types[c]) EXCEPT !.process = TRUE,
                                                        !.active = actives[c]]],
                        [i \in 1..NumProcessClients |-> NumProcessClients + 1 - i],
                        [p \in 0..(PortMax - 1) |-> FreePort], <<>>).client
    /\ next_client_id = NumProcessClients + 1
    /\ port_max = PortMax
    /\ ports = [p \in 0..(PortMax - 1) |-> FreePort]
    /\ freelist = [t \in 0..(n_port_types - 1) |->
                      IF t = 0 THEN Tail(BufferOffsets(PortMax))
                      ELSE BufferOffsets(PortMax)]
    /\ events = <<>>
    /\ op = Op("none", 0, <<>>)
    /\ overflow = FALSE
    /\ client_lock = FALSE
    /\ hist = NoHist
    /\ engine = [EngineNew EXCEPT !.buffer_size = 1,
                                  !.shm_size = [t \in 0..(n_port_types - 1) |-> PortMax],
                                  !.silent_buffer = Head(BufferOffsets(PortMax)),
                                  !.pfd = PollSetOf(client)]

\* the handler has returned: the reply is written, the events are consumed and the
\* server waits for the next request
Idle ==
    /\ op.type \notin {"none", "ActivateClientLocked", "setup_client_names"}
    /\ ~overflow
    /\ op' = Op("none", 0, <<>>)
    /\ events' = <<>>
    /\ hist' = IF hist.valid \/ hist.registered THEN hist ELSE NoHist
    /\ UNCHANGED <<engine, clients, client, next_client_id, port_max, ports, freelist,
                   overflow, client_lock>>

Requests(Requested) ==
    \/ CreateClient
    \/ ActivateClient
    \/ DeactivateClient
    \/ RegisterPort(Requested)
    \/ UnRegisterPort
    \/ ConnectPorts
    \/ DisconnectPorts
    \/ DisconnectPort
    \/ Idle

\* requests, clients that fail and clients that are unloaded
Next ==
    \/ Requests(OneType)
    \/ UnloadClient
    \/ RequestReadError
    \/ PostProcess
    \/ SocketError

\* requests that register, connect and disconnect ports, clients that lock their
\* ports and clients that are unloaded
NextLock ==
    \/ CreateClient
    \/ ActivateClient
    \/ DeactivateClient
    \/ RegisterPort(BothTypes)
    \/ ConnectPorts
    \/ DisconnectPorts
    \/ DisconnectPort
    \/ UnloadClient
    \/ PortLock
    \/ Idle

\* requests that register, connect and disconnect ports, and clients that set the
\* latencies of their ports
NextLatency ==
    \/ CreateClient
    \/ ActivateClient
    \/ DeactivateClient
    \/ RegisterPort(OneType)
    \/ ConnectPorts
    \/ DisconnectPorts
    \/ DisconnectPort
    \/ PortSetLatency
    \/ Idle

\* registrations and unregistrations while the driver sets and changes the buffer size
NextBuffer ==
    \/ CreateClient
    \/ RegisterPort(OneType)
    \/ UnRegisterPort
    \/ SetBufferSize
    \/ Idle

\* the audio thread running cycles while clients are activated and fail
NextCycle ==
    \/ ActivateBegin
    \/ ActivateEnd
    \/ RequestReadError
    \/ RunCycle
    \/ XRun
    \/ DriverWait
    \/ Idle

\* the request thread and the audio thread, step by step
NextThreads ==
    \/ SetupClientNames
    \/ SetupClientRefused
    \/ ActivateBegin
    \/ ActivateEnd
    \/ RunCycle
    \/ DriverWait
    \/ Idle

\* the ports of the removal scenario: two outputs of client 1, two inputs of client 2
RemovePortIds == 0..3

\* the k-th connection that may be made between them: <<source, destination>>
RemoveEdge(k) == <<(k - 1) \div 2, 2 + ((k - 1) % 2)>>

RECURSIVE RemoveConnectionsOf(_, _, _)
\* the connection list of port p once the connections E were made in ascending
\* order, each prepended to both its ports' lists
RemoveConnectionsOf(E, p, k) ==
    IF k = 0 THEN <<>>
    ELSE LET c == Connection(RemoveEdge(k)[1], RemoveEdge(k)[2], k) IN
         IF k \in E /\ (c.source = p \/ c.destination = p)
         THEN <<c>> \o RemoveConnectionsOf(E, p, k - 1)
         ELSE RemoveConnectionsOf(E, p, k - 1)

\* two clients that registered two ports each and made the connections E: the
\* outputs hold the buffers after the silent one, the inputs hold none
InitRemove ==
    \E E \in SUBSET (1..Cardinality(RemovePortIds)), A \in SUBSET (1..MaxClients),
       types \in [1..MaxClients -> {"ClientInternal", "ClientExternal"}] :
        /\ clients = [i \in 1..MaxClients |-> MaxClients + 1 - i]
        /\ client = [c \in 1..MaxClients |->
                        [NewClient(types[c]) EXCEPT
                            !.active = (c \in A),
                            !.ports = IF c = 1 THEN <<1, 0>> ELSE <<3, 2>>]]
        /\ next_client_id = MaxClients + 1
        /\ port_max = Cardinality(RemovePortIds)
        /\ ports = [p \in RemovePortIds |->
                       [FreePort EXCEPT
                           !.in_use = TRUE, !.name = p + 1,
                           !.client_id = IF p < 2 THEN 1 ELSE 2,
                           !.flags = IF p < 2 THEN {"JackPortIsOutput"}
                                     ELSE {"JackPortIsInput"},
                           !.buffer_info = IF p < 2 THEN p + 1 ELSE -1,
                           !.offset = IF p < 2 THEN p + 1 ELSE 0,
                           !.connections = RemoveConnectionsOf(E, p, Cardinality(RemovePortIds))]]
        /\ freelist = [t \in 0..(n_port_types - 1) |->
                          IF t = 0 THEN <<3>> ELSE BufferOffsets(Cardinality(RemovePortIds))]
        /\ events = <<>>
        /\ op = Op("none", 0, <<>>)
        /\ overflow = FALSE
        /\ client_lock = FALSE
        /\ hist = NoHist
        /\ engine = [EngineNew EXCEPT
                         !.buffer_size = 1,
                         !.shm_size = [t \in 0..(n_port_types - 1) |-> Cardinality(RemovePortIds)],
                         !.silent_buffer = 0,
                         !.pfd = PollSetOf(client)]

\* clients that are activated, deactivated, fail and are removed
NextRemove ==
    \/ ActivateClient
    \/ DeactivateClient
    \/ UnloadClient
    \/ RequestReadError
    \/ PostProcess
    \/ SocketError
    \/ Idle

\* clients that come, register ports, fail and go, and unregister nothing
NextLeak ==
    \/ CreateClient
    \/ RegisterPort(OneType)
    \/ RequestReadError
    \/ PostProcess
    \/ SocketError
    \/ UnloadClient
    \/ Idle

\* registrations, and unregistrations with any port id
NextUnregister ==
    \/ CreateClient
    \/ RegisterPort(OneType)
    \/ UnRegisterAnyPort
    \/ Idle

\* cycles, many of them delayed, while clients come
NextDelay ==
    \/ CreateClient
    \/ RunCycleOftenDelayed
    \/ DriverWait
    \/ Idle

\* a real-time engine whose audio thread has just been created: the watchdog thread
\* is about to start, and the heartbeat holds what malloc left there
InitWatchdog ==
    /\ clients = <<>>
    /\ client = <<>>
    /\ next_client_id = 1
    /\ port_max = PortMax
    /\ ports = [p \in 0..(PortMax - 1) |-> FreePort]
    /\ freelist = [t \in 0..(n_port_types - 1) |->
                      IF t = 0 THEN Tail(BufferOffsets(PortMax))
                      ELSE BufferOffsets(PortMax)]
    /\ events = <<>>
    /\ op = Op("none", 0, <<>>)
    /\ overflow = FALSE
    /\ client_lock = FALSE
    /\ hist = NoHist
    /\ \E check \in {0, 1} :
           engine = [EngineNew EXCEPT
                        !.buffer_size = 1,
                        !.shm_size = [t \in 0..(n_port_types - 1) |-> PortMax],
                        !.silent_buffer = Head(BufferOffsets(PortMax)),
                        !.audio = AudioDid("start", 0, "none"),
                        !.watchdog = [pc |-> "start", check |-> check,
                                      tested |-> FALSE, entered |-> FALSE]]

\* a step of the watchdog thread or of jack_main_thread outside its loop
ThreadStep(E) ==
    /\ engine' = E
    /\ events' = <<>>
    /\ UNCHANGED <<clients, client, next_client_id, port_max, ports, freelist, op,
                   overflow, client_lock, hist>>

\* jack_main_thread sets the heartbeat and enters its loop
MainThreadStart ==
    /\ engine.audio.type = "start"
    /\ ThreadStep([engine EXCEPT !.audio = InDriverWait, !.watchdog.check = 1])

\* watchdog_thread clears the heartbeat and goes to sleep
WatchdogStart ==
    /\ engine.watchdog.pc = "start"
    /\ ThreadStep([engine EXCEPT !.watchdog.pc = "sleep", !.watchdog.check = 0])

\* watchdog_thread wakes up and tests the heartbeat: it kills the process group if
\* the heartbeat is 0
WatchdogTest ==
    /\ engine.watchdog.pc = "sleep"
    /\ ThreadStep([engine EXCEPT
                      !.watchdog.pc = IF engine.watchdog.check = 0 THEN "killed"
                                      ELSE "clear",
                      !.watchdog.tested = TRUE,
                      !.watchdog.entered = FALSE])

\* watchdog_thread clears the heartbeat it tested and goes back to sleep
WatchdogClear ==
    /\ engine.watchdog.pc = "clear"
    /\ ThreadStep([engine EXCEPT !.watchdog.pc = "sleep", !.watchdog.check = 0])

\* the threads of a real-time engine until the watchdog kills the process
NextWatchdog ==
    \/ MainThreadStart
    \/ WatchdogStart
    \/ WatchdogTest
    \/ WatchdogClear
    \/ engine.watchdog.pc # "killed" /\ CreateClient
    \/ engine.watchdog.pc # "killed" /\ RunCycle
    \/ engine.watchdog.pc # "killed" /\ DriverWait
    \/ engine.watchdog.pc # "killed" /\ Idle

\* the audio thread in jack_inc_frame_time, one store at a time; the driver's wait
\* has stamped the cycle before jack_run_cycle calls it with one frame
jack_inc_frame_time ==
    LET time == engine.frame_timer
        at == engine.timer_threads.pc
    IN  \/ /\ at = "out"
           /\ engine.timer_threads.last_wait_ust < MaxTimerCycles
           /\ ThreadStep([engine EXCEPT !.frame_timer.guard1 = time.guard1 + 1,
                                        !.timer_threads.last_wait_ust = @ + 1,
                                        !.timer_threads.pc = "frames"])
        \/ /\ at = "frames"
           /\ ThreadStep([engine EXCEPT !.frame_timer.frames = time.frames + 1,
                                        !.timer_threads.pc = "stamp"])
        \/ /\ at = "stamp"
           /\ ThreadStep([engine EXCEPT
                             !.frame_timer.stamp = engine.timer_threads.last_wait_ust,
                             !.timer_threads.pc = "guard2"])
        \/ /\ at = "guard2"
           /\ ThreadStep([engine EXCEPT !.frame_timer.guard2 = time.guard2 + 1,
                                        !.timer_threads.pc = "out"])

\* the field a reader reads after the field at, in its order; "check" after the last
NextField(order, at) ==
    IF order = "forward"
    THEN CASE at = "guard1" -> "frames" [] at = "frames" -> "stamp"
           [] at = "stamp" -> "guard2" [] OTHER -> "check"
    ELSE CASE at = "guard2" -> "stamp" [] at = "stamp" -> "frames"
           [] at = "frames" -> "guard1" [] OTHER -> "check"

FirstField(order) == IF order = "forward" THEN "guard1" ELSE "guard2"

\* a client thread that reads the frame timer: it copies the four fields one by one,
\* in the order of the record or in the reverse order, reads them again if the guards
\* it copied disagree and accepts the copy if they agree
ReadFrameTime ==
    LET t == engine.timer_threads
        time == engine.frame_timer
    IN  \/ /\ t.reader \in {"idle", "accepted"}
           /\ \E order \in {"forward", "backward"} :
                  ThreadStep([engine EXCEPT !.timer_threads.reader = FirstField(order),
                                            !.timer_threads.order = order,
                                            !.timer_threads.copy = FrameTimerNew])
        \/ /\ t.reader \in {"guard1", "frames", "stamp", "guard2"}
           /\ ThreadStep([engine EXCEPT
                             !.timer_threads.copy[t.reader] = time[t.reader],
                             !.timer_threads.reader = NextField(t.order, t.reader)])
        \/ /\ t.reader = "check"
           /\ t.copy.guard1 # t.copy.guard2
           /\ ThreadStep([engine EXCEPT !.timer_threads.reader = FirstField(t.order)])
        \/ /\ t.reader = "check"
           /\ t.copy.guard1 = t.copy.guard2
           /\ ThreadStep([engine EXCEPT !.timer_threads.reader = "accepted"])

\* every record on the client list is there: what the engine does with a list that
\* holds a freed record is not defined, and is not explored
ListIsLive == \A i \in DOMAIN clients : clients[i] \in DOMAIN client

\* clients whose creation succeeds or fails, and requests
NextCreate ==
    \/ ListIsLive /\ CreateClient
    \/ ListIsLive /\ CreateClientFails
    \/ ListIsLive /\ ActivateClient
    \/ ListIsLive /\ DeactivateClient
    \/ ListIsLive /\ RegisterPort(OneType)
    \/ ListIsLive /\ UnloadClient
    \/ Idle

\* cycles over a list of clients that are deactivated
NextProcess ==
    \/ DeactivateClient
    \/ RunCycle
    \/ DriverWait
    \/ Idle

\* the audio thread advancing the frame timer while a client reads it
NextTimer ==
    \/ jack_inc_frame_time
    \/ ReadFrameTime

\* clients that come, take the timebase, fail and go, while cycles run
NextTransport ==
    \/ CreateClient
    \/ ActivateClient
    \/ DeactivateClient
    \/ SetTimeBaseClient
    \/ ClientSetTransport
    \/ RequestReadError
    \/ RunCycle
    \/ DriverWait
    \/ SocketError
    \/ UnloadClient
    \/ Idle

Spec == Init /\ [][Next]_vars
SpecTransport == Init /\ [][NextTransport]_vars
SpecTimer == Init /\ [][NextTimer]_vars
SpecProcess == InitProcess /\ [][NextProcess]_vars
SpecCreate == Init /\ [][NextCreate]_vars
SpecRemove == InitRemove /\ [][NextRemove]_vars
SpecLeak == Init /\ [][NextLeak]_vars
SpecWatchdog == InitWatchdog /\ [][NextWatchdog]_vars
SpecDelay == Init /\ [][NextDelay]_vars
SpecUnregister == Init /\ [][NextUnregister]_vars
SpecThreads == InitCycle /\ [][NextThreads]_vars
SpecCycle == InitCycle /\ [][NextCycle]_vars
SpecBuffer == InitBuffer /\ [][NextBuffer]_vars
SpecLock == Init /\ [][NextLock]_vars
SpecLatency == Init /\ [][NextLatency]_vars

----------------------------------------------------------------------------
(* What the claims speak of *)

ClientSet == Range(clients)
Sorted == op.type = "jack_sort_graph" /\ ~overflow

\* some output of d is connected to some input of c
DirectlyFeeds(d, c) == jack_client_feeds(client, ports, d, c)

RECURSIVE FeedersOf(_)
\* the least set that holds S and every client that directly feeds a member of it
FeedersOf(S) ==
    LET S2 == S \cup {d \in ClientSet : \E e \in S : DirectlyFeeds(d, e)} IN
    IF S2 = S THEN S ELSE FeedersOf(S2)

\* the clients from which c is reachable along one or more connections
Ancestors(c) == FeedersOf({d \in ClientSet : DirectlyFeeds(d, c)})

InFedBy(a, b) == jack_slist_find(client[b].fed_by, a)

----------------------------------------------------------------------------
(* Claims about the graph sorter (SpecSort) *)

\* C4: after jack_sort_graph, for all clients a and b, if a is in fed_by(b) then
\* a.execution_order < b.execution_order, unless b is in fed_by(a) and a is the
\* driver.
C4_ExecutionOrderFollowsFedBy ==
    Sorted =>
        \A a \in ClientSet, b \in ClientSet :
            (a # b /\ InFedBy(a, b)) =>
                \/ client[a].execution_order < client[b].execution_order
                \/ (InFedBy(b, a) /\ client[a].type = "ClientDriver")

\* C5: after jack_sort_graph, fed_by(C) is exactly the set of other clients from
\* which C is reachable along connections.
C5_FedByIsTransitiveClosure ==
    Sorted =>
        \A c \in ClientSet : Range(client[c].fed_by) = Ancestors(c) \ {c}

\* C6: jack_sort_graph reaches a final state for every connection graph and every
\* order of the client list: the jack_trace_terminal recursion returns.
C6_SortGraphTerminates ==
    op.type = "jack_sort_graph" => ~overflow

\* C12: jack_sort_graph run twice with no mutation in between leaves every client
\* with the execution_order, subgraph_start_fd and subgraph_wait_fd of the first run.
C12_SortIsIdempotent ==
    [][op'.type = "jack_sort_graph_again" =>
          /\ ~overflow'
          /\ \A c \in ClientSet :
                 /\ client'[c].execution_order = client[c].execution_order
                 /\ client'[c].subgraph_start_fd = client[c].subgraph_start_fd
                 /\ client'[c].subgraph_wait_fd = client[c].subgraph_wait_fd]_vars

----------------------------------------------------------------------------
(* Claims about the request handlers *)

PortIds == 0..(port_max - 1)
Connections(P, p) == Range(P[p].connections)
EventTypes(type) == {i \in DOMAIN events : events[i].type = type}
RemovalOps == {"UnloadClient", "SocketError"}
ConnectionRequests ==
    {"ConnectPorts", "DisconnectPorts", "DisconnectPort", "UnRegisterPort",
     "DeactivateClient"}

\* C1: in every reachable state a connection record is on its source port's
\* connection list if and only if it is on its destination port's connection list.
C1_ConnectionListsSymmetric ==
    \A p \in PortIds : \A c \in Connections(ports, p) :
        /\ c \in Connections(ports, c.source)
        /\ c \in Connections(ports, c.destination)

\* C1 witness: a disconnect took one connection off both lists and left another on
\* both
C1_Witness ==
    /\ op.type = "DisconnectPorts" /\ op.status = 0
    /\ \E p \in PortIds : ports[p].connections # <<>>

\* C2: no request (ConnectPorts, DisconnectPorts, DisconnectPort, UnRegisterPort,
\* DeactivateClient) changes the connection list of a port whose locked flag is set.
C2_LockedPortKeepsItsConnections ==
    [][\A p \in PortIds :
          (ports[p].locked /\ op'.type \in ConnectionRequests)
              => ports'[p].connections = ports[p].connections]_vars

\* C3: once jack_remove_client has removed client C, no connection on any port's list
\* has an endpoint owned by C and no port slot in use has C as its owning client id.
C3_RemovedClientOwnsNothing ==
    op.type \in RemovalOps =>
        \A p \in PortIds :
            /\ ports[p].in_use => ports[p].client_id # op.args[1]
            /\ \A c \in Connections(ports, p) :
                   /\ ports[c.source].client_id # op.args[1]
                   /\ ports[c.destination].client_id # op.args[1]

\* the failure conditions a connect request from source_port to destination_port
\* meets in the port table P and among the clients C of list L
OwnerUnknownOrInactive(P, C, L, p) ==
    \/ P[p].client_id \notin Range(L)
    \/ ~C[P[p].client_id].active

ConnectMustFail(P, C, L, source_port, destination_port) ==
    LET s == jack_get_port_by_name(P, port_max, source_port)
        d == jack_get_port_by_name(P, port_max, destination_port)
    IN  \/ s = -1
        \/ d = -1
        \/ /\ s # -1
           /\ d # -1
           /\ \/ "JackPortIsOutput" \notin P[s].flags
              \/ "JackPortIsInput" \notin P[d].flags
              \/ P[s].locked
              \/ P[d].locked
              \/ P[s].type_id # P[d].type_id
              \/ OwnerUnknownOrInactive(P, C, L, s)
              \/ OwnerUnknownOrInactive(P, C, L, d)
              \/ P[d].connections # <<>> /\ ~Mixdown(P[d].type_id)

\* C7: a ConnectPorts request that meets a failure condition (unknown port name,
\* source not an output, destination not an input, a locked port, differing types, an
\* unknown or inactive owner, a connected destination whose type has no mixdown)
\* returns -1, adds no connection to any list and delivers no PortConnected or
\* GraphReordered event.
C7_RefusedConnectChangesNothing ==
    [][(/\ op'.type = "ConnectPorts"
        /\ ConnectMustFail(ports, client, clients, op'.args[1], op'.args[2]))
          => /\ op'.status = -1
             /\ \A p \in PortIds : ports'[p].connections = ports[p].connections
             /\ \A i \in DOMAIN events' :
                    events'[i].type \notin {"PortConnected", "GraphReordered"}]_vars

\* C7 witness: a connect between an output and an input of active clients was
\* refused because the destination, of a type without mixdown, had a connection
C7_Witness ==
    /\ op.type = "ConnectPorts" /\ op.status = -1
    /\ LET s == jack_get_port_by_name(ports, port_max, op.args[1])
           d == jack_get_port_by_name(ports, port_max, op.args[2])
       IN  /\ s # -1 /\ d # -1
           /\ "JackPortIsOutput" \in ports[s].flags
           /\ "JackPortIsInput" \in ports[d].flags
           /\ ~ports[s].locked /\ ~ports[d].locked
           /\ ports[s].type_id = ports[d].type_id
           /\ ~OwnerUnknownOrInactive(ports, client, clients, s)
           /\ ~OwnerUnknownOrInactive(ports, client, clients, d)
           /\ ports[d].connections # <<>> /\ ~Mixdown(ports[d].type_id)

\* C8: a RegisterPort request for an output port of a type whose buffer free-list is
\* empty returns -1, leaves every slot of the port table as it was and delivers no
\* event.
C8_FailedRegistrationChangesNothing ==
    [][(/\ op'.type = "RegisterPort"
        /\ op'.args[3] < n_port_types
        /\ "JackPortIsOutput" \in Registration(op'.args[1], op'.args[3]).flags
        /\ freelist[op'.args[3]] = <<>>)
          => /\ op'.status = -1
             /\ ports' = ports
             /\ events' = <<>>]_vars

\* C9 as claimed: after a successful connect the PortConnected events come strictly
\* before the GraphReordered events of the re-sort.
C9_ConnectedBeforeReordered ==
    (op.type = "ConnectPorts" /\ op.status = 0) =>
        \A i \in EventTypes("PortConnected"), j \in EventTypes("GraphReordered") :
            i < j

\* C9 amended: after a successful connect the GraphReordered events of the re-sort
\* that reflects the new edge come before the PortConnected events to the owners.
C9_ReorderedBeforeConnected ==
    (op.type = "ConnectPorts" /\ op.status = 0) =>
        \A i \in EventTypes("PortConnected"), j \in EventTypes("GraphReordered") :
            j < i

\* C9 witness: a successful connect delivered events of both kinds
C9_Witness ==
    /\ op.type = "ConnectPorts" /\ op.status = 0
    /\ Cardinality(EventTypes("PortConnected")) = 2
    /\ EventTypes("GraphReordered") # {}

\* the total latencies of P are those jack_compute_all_port_total_latencies gives
LatenciesCurrent(P) ==
    \A p \in PortIds :
        P[p].total_latency = jack_compute_all_port_total_latencies(P)[p].total_latency

C11_RegisterUnregisterIsNoOp ==
    hist.unregistered =>
        /\ ports[hist.args[2]].in_use = hist.ports[hist.args[2]].in_use
        /\ client[hist.args[1]].ports = hist.client[hist.args[1]].ports
        /\ freelist = hist.freelist

----------------------------------------------------------------------------
(* Claims about the port buffers *)

\* the buffers of a type that ports hold, as a sequence of offsets in slot order
RECURSIVE InUseBuffers(_, _, _)
InUseBuffers(P, t, p) ==
    IF p >= port_max THEN <<>>
    ELSE (IF P[p].in_use /\ P[p].type_id = t /\ P[p].buffer_info \notin {-1, -2}
          THEN <<P[p].buffer_info>> ELSE <<>>) \o InUseBuffers(P, t, p + 1)

\* every buffer of a type the engine knows: free, held by a port, or the silent buffer
AllBuffers(t) ==
    freelist[t] \o InUseBuffers(ports, t, 0)
        \o (IF t = 0 /\ engine.silent_buffer # -1 THEN <<engine.silent_buffer>> ELSE <<>>)

\* C13: after every buffer-size change, the first and the later ones, each type's
\* segment is nports buffers long and the free buffers, the buffers ports hold and
\* the silent buffer partition it: no offset twice, each a multiple of the size of
\* one buffer, every buffer of the segment accounted for
C13_BuffersPartitionSegment ==
    op.type = "SetBufferSize" =>
        \A t \in 0..(n_port_types - 1) :
            LET one_buffer == OneBuffer(t, engine.buffer_size)
                all == AllBuffers(t)
            IN  /\ engine.shm_size[t] = port_max * one_buffer
                /\ \A i, j \in 1..Len(all) : all[i] = all[j] => i = j
                /\ Range(all) = {k * one_buffer : k \in 0..(port_max - 1)}

\* C14: once extracted, the silent buffer is never returned to the free-list of its
\* type and never assigned to a port: its offset is not on the first type's
\* free-list and is the offset of no in-use output port of that type
C14_SilentBufferReserved ==
    engine.silent_buffer # -1 =>
        /\ engine.silent_buffer \notin Range(freelist[0])
        /\ \A p \in 0..(port_max - 1) :
               (ports[p].in_use /\ ports[p].type_id = 0
                    /\ "JackPortIsOutput" \in ports[p].flags)
                   => ports[p].buffer_info # engine.silent_buffer

----------------------------------------------------------------------------
(* Claims about the audio thread *)

\* the step is a cycle that ran the post-process
PostProcessed == engine.audio.type = "wait" /\ engine'.audio.post_process = 1

\* in this step's cycle external client c, with a process callback, woke up and did
\* not finish
WokeAndDidNotFinish(c) ==
    /\ PostProcessed
    /\ c \in DOMAIN client /\ c \in DOMAIN client'
    /\ client[c].type = "ClientExternal" /\ client[c].process
    /\ client[c].active /\ ~client[c].dead
    /\ client'[c].awake_at # 0 /\ client'[c].state = "Running"

\* C15: a client that wakes up but does not finish in time is not killed at once:
\* after the post-process of the first such cycle its timed_out is 1, its error is 0
\* and it is not zombified
C15_FirstTimeoutIsForgiven ==
    [][\A c \in 1..MaxClients :
           (WokeAndDidNotFinish(c) /\ client[c].timed_out = 0)
               => (client'[c].timed_out = 1 /\ client'[c].error = 0
                       /\ ~client'[c].dead)]_vars

\* C16: removal has two stages: at post-process a client whose error has reached
\* JACK_ERROR_WITH_SOCKETS is removed from the client list, a client with a smaller
\* error is zombified and its counter reset, and a zombie that has incurred a
\* further failure is removed
C16_TwoStageRemoval ==
    [][\A c \in 1..MaxClients :
           (PostProcessed /\ c \in DOMAIN client /\ client[c].error > 0)
               => IF client[c].error >= JACK_ERROR_WITH_SOCKETS \/ client[c].dead
                  THEN c \notin DOMAIN client' /\ ~jack_slist_find(clients', c)
                  ELSE /\ c \in DOMAIN client'
                       /\ client'[c].dead /\ client'[c].error = 0]_vars

\* C17: every failed write or read on a client's event socket in jack_deliver_event,
\* and every short read on its request socket in handle_external_client_request, adds
\* JACK_ERROR_WITH_SOCKETS to the client's error, so that the next post-process
\* removes the client
C17_SocketFailureAddsSocketError ==
    [][/\ (op.type = "none" /\ op'.type = "RequestReadError")
              => client'[op'.args[1]].error >= JACK_ERROR_WITH_SOCKETS
       /\ engine.audio.type = "wait"
              => \A c \in engine'.audio.failed :
                     client'[c].error >= JACK_ERROR_WITH_SOCKETS]_vars

\* C18: on no path does the audio thread take the graph lock with a blocking
\* jack_lock_graph: it only ever try-locks
C18_AudioThreadOnlyTryLocks == engine.audio.lock # "blocking"

\* the step is a cycle that found the graph lock held by the request thread
FoundLockHeld == engine.audio.type = "wait" /\ engine'.audio.type = "jack_run_cycle"
                     /\ client_lock

\* C19: when the graph lock is held by another thread as jack_run_cycle try-locks it,
\* the cycle calls driver->null_cycle once, neither driver->read nor driver->write,
\* processes no client, runs no post-process, does not unlock and returns 0
C19_HeldLockGivesNullCycle ==
    [][FoundLockHeld =>
           /\ engine'.audio.null_cycle = 1
           /\ engine'.audio.read = 0 /\ engine'.audio.write = 0
           /\ engine'.audio.process = 0 /\ engine'.audio.post_process = 0
           /\ engine'.audio.unlock = 0 /\ client_lock'
           /\ engine'.audio.ret = 0
           /\ client' = client /\ clients' = clients /\ ports' = ports
           /\ events' = events]_vars

\* a cycle has run while jack_client_activate held the graph lock
C19_Witness ==
    /\ op.type = "ActivateClientLocked" /\ client_lock
    /\ engine.audio.type = "jack_run_cycle" /\ engine.audio.lock = "try_failed"
    /\ \E c \in DOMAIN client : client[c].active /\ ~client[c].dead

\* C20: a thread that reads or writes the client list, a client's ports or fed_by,
\* or a port's connections holds the graph lock while it does: the request thread
\* going through the client list in setup_client holds it
C20_ClientListReadUnderLock == op.type = "setup_client_names" => client_lock

\* the external subgraphs dispatched in the last cycle, as positions of the log
ExternalDispatches ==
    {i \in DOMAIN engine.audio.dispatched :
        LET c == engine.audio.dispatched[i].client
        IN  c \in DOMAIN client => ~jack_client_is_internal(client, c)}

\* C21: for each external subgraph dispatched in a cycle the engine writes one byte
\* to the start FIFO, never more, and it has consumed exactly one byte from the wait
\* FIFO whenever it goes on to the next client
C21_OneByteOutOneByteIn ==
    \A i \in ExternalDispatches :
        LET d == engine.audio.dispatched[i]
        IN  /\ d.wrote <= 1 /\ d.read <= d.wrote
            /\ (d.node # 0 \/ i < Len(engine.audio.dispatched))
                   => (d.wrote = 1 /\ d.read = 1)

\* a cycle dispatched an external subgraph and then went on to another client
C21_Witness ==
    \E i \in ExternalDispatches :
        /\ i < Len(engine.audio.dispatched)
        /\ engine.audio.dispatched[i].wrote = 1
        /\ engine.audio.dispatched[i].read = 1

----------------------------------------------------------------------------
(* Claims about the transport *)

\* in this step the engine deactivates, zombifies or removes client c
LosesClient(c) ==
    /\ c \in DOMAIN client
    /\ \/ c \notin DOMAIN client'
       \/ c \in DOMAIN client' /\ ~client[c].dead /\ client'[c].dead
       \/ c \in DOMAIN client' /\ client[c].active /\ ~client'[c].active

\* C22: whenever the timebase client is deactivated, zombified or removed,
\* timebase_client becomes null and the current and the pending transport time are
\* stopped at frame 0 with state and position valid
C22_TimebaseClientLostResetsTransport ==
    [][\A c \in 1..MaxClients :
           (engine.transport.timebase_client = c /\ LosesClient(c))
               => /\ engine'.transport.timebase_client = 0
                  /\ engine'.transport.current_time = StoppedTime
                  /\ engine'.transport.pending_time = StoppedTime]_vars

----------------------------------------------------------------------------
(* Claims about the removal of a client *)

\* the positions of the events of this type among the events of the step
EventsOfType(evs, type) == {i \in 1..Len(evs) : evs[i].type = type}

\* the connections carried by the ports of client c
ConnectionsCarried(c) ==
    UNION {{ports[client[c].ports[i]].connections[j] :
                j \in 1..Len(ports[client[c].ports[i]].connections)} :
           i \in 1..Len(client[c].ports)}

\* client c owns two output ports that carry three connections in all, each to a
\* port of an active peer
TwoPortsThreeConnections(c) ==
    /\ c \in DOMAIN client
    /\ ~client[c].dead
    /\ Len(client[c].ports) = 2
    /\ \A i \in 1..2 : "JackPortIsOutput" \in ports[client[c].ports[i]].flags
    /\ Cardinality(ConnectionsCarried(c)) = 3
    /\ \A k \in ConnectionsCarried(c) :
           LET peer == ports[k.destination].client_id
           IN  /\ peer # c /\ peer \in DOMAIN client
               /\ client[peer].active /\ ~client[peer].dead

\* C23: the removal of a client that owns 2 output ports carrying 3 connections to
\* ports of active peers emits exactly 3 PortDisconnected events and then exactly 2
\* PortUnregistered events, every PortDisconnected before every PortUnregistered
C23_RemovalEmitsDisconnectsThenUnregisters ==
    [][\A c \in 1..MaxClients :
           (TwoPortsThreeConnections(c) /\ c \notin DOMAIN client')
               => /\ Cardinality(EventsOfType(events', "PortDisconnected")) = 3
                  /\ Cardinality(EventsOfType(events', "PortUnregistered")) = 2
                  /\ \A i \in EventsOfType(events', "PortDisconnected"),
                        j \in EventsOfType(events', "PortUnregistered") : i < j]_vars

\* the length of a type's buffer free-list before the first client is created
FreeBuffersAtStart(t) == IF t = 0 THEN PortMax - 1 ELSE PortMax

\* C24: once the first client, which registers output ports only, has been created
\* and removed, every type's buffer free-list is as long as before its creation
C24_RemovalLeaksNoBuffer ==
    (clients = <<>> /\ next_client_id = 2)
        => \A t \in 0..(n_port_types - 1) : Len(freelist[t]) = FreeBuffersAtStart(t)

----------------------------------------------------------------------------
(* Claims about UnRegisterPort *)

\* the step is an UnRegisterPort request that must be refused: its port id is no
\* index of [0, port_max), or the port's owner is not the requesting client
UnregisterToRefuse ==
    /\ op'.type = "UnRegisterAnyPort"
    /\ LET client_id == op'.args[1]
           port_id == op'.args[2]
       IN  \/ port_id \notin 0..(port_max - 1)
           \/ ports[port_id].client_id # client_id

\* C25: an UnRegisterPort request for a port id outside [0, port_max), or for a port
\* the requesting client does not own, returns -1 and changes no state
C25_BadUnregisterIsRefused ==
    [][UnregisterToRefuse
           => /\ op'.status = -1
              /\ events' = <<>>
              /\ UNCHANGED <<clients, client, ports, freelist, engine>>]_vars

----------------------------------------------------------------------------
(* Claims about excessive delays *)

\* the step is a call of jack_run_cycle
CycleStep == engine.audio.type = "wait" /\ engine'.audio.type = "jack_run_cycle"

\* the step is a cycle with an excessive delay: the only path that counts one more
ExcessiveCycleStep ==
    /\ CycleStep
    /\ engine'.consecutive_excessive_delays = engine.consecutive_excessive_delays + 1

\* C26: the tenth consecutive cycle with an excessive delay makes jack_run_cycle
\* return non-zero, and a cycle without an excessive delay resets the count to zero
C26_TenthExcessiveDelayAborts ==
    [][/\ (ExcessiveCycleStep /\ engine'.consecutive_excessive_delays = 10)
              => engine'.audio.ret # 0
       /\ (CycleStep /\ ~ExcessiveCycleStep)
              => engine'.consecutive_excessive_delays = 0]_vars

----------------------------------------------------------------------------
(* Claims about connections *)

\* the connections of which port p is the destination
ConnectionsTo(p) ==
    {i \in 1..Len(ports[p].connections) : ports[p].connections[i].destination = p}

\* C27: a destination port whose type has no mixdown function has at most one
\* connection, whatever the order of the ConnectPorts requests of the external and
\* the internal client
C27_NoMixdownSingleConnection ==
    \A p \in 0..(port_max - 1) :
        ~jack_builtin_port_types[ports[p].type_id + 1].mixdown
            => Cardinality(ConnectionsTo(p)) <= 1

\* a ConnectPorts request that passed every check made without the lock and was
\* refused for its destination, which has its one connection
C27_Witness ==
    /\ op.type = "ConnectPorts"
    /\ op.status = -1
    /\ LET srcport == jack_get_port_by_name(ports, port_max, op.args[1])
           dstport == jack_get_port_by_name(ports, port_max, op.args[2])
       IN  /\ ~ConnectRefused(World, srcport, dstport)
           /\ ~jack_builtin_port_types[ports[dstport].type_id + 1].mixdown
           /\ Cardinality(ConnectionsTo(dstport)) = 1

----------------------------------------------------------------------------
(* Claims about the driver in a feedback loop *)

\* the place of client c in the client list
PlaceOf(L, c) == CHOOSE i \in 1..Len(L) : L[i] = c

\* a and b feed each other, and an output of the driver d is connected to one of them
DriverAtLoop(a, b, d) ==
    /\ Cardinality({a, b, d}) = 3
    /\ client[d].type = "ClientDriver"
    /\ DirectlyFeeds(a, b) /\ DirectlyFeeds(b, a)
    /\ \E x \in {a, b} : DirectlyFeeds(d, x)

\* C28: with the feedback loop A -> B, B -> A and a driver D connected to A or to B,
\* jack_sort_graph returns and leaves D before A and before B in the client list
C28_DriverBeforeFeedbackLoop ==
    [][op'.type = "jack_sort_graph" =>
          \A a, b, d \in DOMAIN client :
              DriverAtLoop(a, b, d)
                  => /\ ~overflow'
                     /\ PlaceOf(clients', d) < PlaceOf(clients', a)
                     /\ PlaceOf(clients', d) < PlaceOf(clients', b)]_vars

----------------------------------------------------------------------------
(* Claims about the watchdog *)

\* the step is a test of the heartbeat that is not the watchdog's first
WatchdogChecks ==
    /\ engine.watchdog.pc = "sleep"
    /\ engine'.watchdog.pc \in {"clear", "killed"}
    /\ engine.watchdog.tested

\* C29: at a check the watchdog kills exactly when jack_run_cycle was not entered
\* since the previous check, however the stamp of the heartbeat interleaves with
\* the watchdog's test and its clear
C29_KillsExactlyWhenNotEntered ==
    [][WatchdogChecks
           => (engine'.watchdog.pc = "killed" <=> ~engine.watchdog.entered)]_vars

----------------------------------------------------------------------------
(* Claims about a cycle whose processing fails *)

\* the place of a call among the calls of the cycle, 0 when it was not made
CallPlace(call) ==
    IF \E i \in DOMAIN engine.audio.calls : engine.audio.calls[i] = call
    THEN CHOOSE i \in DOMAIN engine.audio.calls : engine.audio.calls[i] = call
    ELSE 0

\* the last cycle ran jack_engine_process, which reported an error
ProcessingFailed ==
    /\ engine.audio.type = "jack_run_cycle"
    /\ engine.audio.process = 1
    /\ engine.process_errors > 0

\* C30: in a cycle whose client processing reports an error no client is dispatched
\* after the failing one, driver->write is not called, driver->stop is called before
\* the post-process, and driver->start only after the graph lock is released
C30_FailedCycleStopsAndRestarts ==
    ProcessingFailed =>
        /\ \A i \in DOMAIN engine.audio.dispatched :
               engine.audio.dispatched[i].errors > 0
                   => i = Len(engine.audio.dispatched)
        /\ engine.audio.write = 0 /\ CallPlace("write") = 0
        /\ 0 < CallPlace("stop") /\ CallPlace("stop") < CallPlace("post_process")
        /\ 0 < CallPlace("unlock") /\ CallPlace("unlock") < CallPlace("start")

\* a failed cycle in which an active client that is not dead stood behind the
\* failing one in the list the cycle ran
C30_Witness ==
    /\ ProcessingFailed
    /\ engine.audio.dispatched # <<>>
    /\ LET last == engine.audio.dispatched[Len(engine.audio.dispatched)]
       IN  /\ last.errors > 0
           /\ \E c \in DOMAIN client :
                  /\ c # last.client
                  /\ client[c].active /\ ~client[c].dead
                  /\ \A i \in DOMAIN engine.audio.dispatched :
                         engine.audio.dispatched[i].client # c
                  /\ \E i, j \in DOMAIN clients :
                         i < j /\ clients[i] = last.client /\ clients[j] = c

----------------------------------------------------------------------------
(* Claims about the comparator on a feedback cycle *)

\* a and b are each in the other's fed_by
FeedbackPair(a, b) == a # b /\ InFedBy(a, b) /\ InFedBy(b, a)

\* C31: for clients a and b that are each in the other's fed_by, jack_client_sort
\* returns 0 for (a,b) and for (b,a) when neither is the driver, and orders the
\* driver first in both argument orders when one of them is
C31_FeedbackPairIsEquivalent ==
    Sorted =>
        \A a, b \in ClientSet :
            FeedbackPair(a, b) =>
                IF client[a].type = "ClientDriver"
                THEN /\ jack_client_sort(client, a, b) = -1
                     /\ jack_client_sort(client, b, a) = 1
                ELSE IF client[b].type = "ClientDriver"
                THEN /\ jack_client_sort(client, a, b) = 1
                     /\ jack_client_sort(client, b, a) = -1
                ELSE /\ jack_client_sort(client, a, b) = 0
                     /\ jack_client_sort(client, b, a) = 0

----------------------------------------------------------------------------
(* Claims about the subgraphs jack_rechain_graph makes *)

\* the active clients, in list order
ActiveList == SelectSeq(clients, LAMBDA c : client[c].active)

\* places s..e of the active clients are a maximal run of external clients
SubgraphAt(s, e) ==
    /\ s <= e
    /\ \A i \in s..e : ~jack_client_is_internal(client, ActiveList[i])
    /\ s = 1 \/ jack_client_is_internal(client, ActiveList[s - 1])
    /\ e = Len(ActiveList) \/ jack_client_is_internal(client, ActiveList[e + 1])

Rechained == op.type \in {"jack_sort_graph", "jack_sort_graph_again"} /\ ~overflow

\* the first member of the run is bound to the FIFO of its execution order
StartsAtFirst(s) ==
    client[ActiveList[s]].subgraph_start_fd =
        jack_get_fifo_fd(client[ActiveList[s]].execution_order)

----------------------------------------------------------------------------
(* Claims about the frame timer *)

\* the reader has accepted a copy
Accepted == engine.timer_threads.reader = "accepted"

\* C33: the (frames, stamp) pair a reader accepts was written by one call of
\* jack_inc_frame_time (the call of cycle k leaves frames = k and stamp = k), and
\* guard1 - guard2 is 0 while the audio thread is outside jack_inc_frame_time and 1
\* while it is inside
C33_AcceptedPairIsFromOneCall ==
    /\ Accepted => engine.timer_threads.copy.frames = engine.timer_threads.copy.stamp
    /\ engine.frame_timer.guard1 - engine.frame_timer.guard2 =
           IF engine.timer_threads.pc = "out" THEN 0 ELSE 1

----------------------------------------------------------------------------
(* Claims about the graph mutex after a request *)

\* the requests of do_request that the model issues
RequestNames ==
    {"ActivateClient", "DeactivateClient", "SetTimeBaseClient", "RegisterPort",
     "UnRegisterPort", "ConnectPorts", "DisconnectPorts", "DisconnectPort"}

\* C34: every request handler releases the graph mutex on every return path: when a
\* request has returned, whatever its status, the graph mutex is free
C34_ReturnedRequestLeavesLockFree ==
    op.type \in RequestNames => ~client_lock

----------------------------------------------------------------------------
(* Claims about clients whose creation fails *)

\* C35: every client record on the engine's client list is live: when the creation
\* of a client fails after the client was prepended to the list, the client is off
\* the list, and its request fd off the poll set, before its record is freed
C35_ClientListIsLive ==
    /\ ListIsLive
    /\ op.type = "NewClientFailed" =>
           /\ ~jack_slist_find(clients, op.args[1])
           /\ engine.pfd.max =
                  PollSetNew.max
                      + Cardinality({c \in Range(clients) \cap DOMAIN client :
                                        client[c].type = "ClientExternal"})

----------------------------------------------------------------------------
(* Claims about the owners of connected ports *)

\* port e is in use, on the port list of its owning client, and that client is on the
\* client list, active and not dead
EndpointIsSound(e) ==
    LET owner == ports[e].client_id
    IN  /\ ports[e].in_use
        /\ jack_slist_find(clients, owner)
        /\ owner \in DOMAIN client
        /\ jack_slist_find(client[owner].ports, e)
        /\ client[owner].active
        /\ ~client[owner].dead

\* C36: in every reachable state, both endpoints of every connection are in-use ports
\* on the port list of their owning client, and that owner is on the client list,
\* active and not dead
C36_ConnectionEndpointsAreSound ==
    \A p \in PortIds :
        \A c \in Connections(ports, p) :
            EndpointIsSound(c.source) /\ EndpointIsSound(c.destination)

----------------------------------------------------------------------------
(* Claims about the clients a cycle triggers *)

\* the place of the nearest active client before place i of the list, 0 if none
RECURSIVE ActiveBefore(_)
ActiveBefore(i) ==
    IF i <= 1 THEN 0
    ELSE IF client[clients[i - 1]].active THEN i - 1
    ELSE ActiveBefore(i - 1)

\* jack_rechain_graph makes the external client c the first member of a subgraph:
\* c is active and the active client before it, if any, is internal
FirstOfSubgraph(c) ==
    /\ client[c].active
    /\ LET b == ActiveBefore(PlaceOf(clients, c))
       IN  b = 0 \/ jack_client_is_internal(client, clients[b])

\* C37: in every cycle, jack_engine_process writes a start byte for an external
\* client only if the latest jack_rechain_graph made it the first member of a
\* subgraph, whatever the arrangement of active and inactive clients in the list
C37_OnlySubgraphHeadsAreTriggered ==
    [][CycleStep =>
          \A i \in DOMAIN engine'.audio.dispatched :
              LET d == engine'.audio.dispatched[i]
              IN  ~jack_client_is_internal(client, d.client) /\ d.wrote = 1
                      => FirstOfSubgraph(d.client)]_vars

----------------------------------------------------------------------------
(* Claims about zombies *)

\* C38: no client is both dead and active: a client of the list with dead = TRUE has
\* active = FALSE, so jack_rechain_graph gives no zombie a place in a subgraph
C38_NoZombieIsActive ==
    \A c \in ClientSet : client[c].dead => ~client[c].active

----------------------------------------------------------------------------
(* Claims about the timebase client *)

\* the timebase pointer names nobody, or a client of the list that is not dead
TimebaseIsLive ==
    LET t == engine.transport.timebase_client
    IN  t # 0 => /\ t \in ClientSet
                 /\ t \in DOMAIN client
                 /\ ~client[t].dead

\* a SetTimeBaseClient request that returned -1 left the timebase pointer alone
FailedSetTimebaseKeeps ==
    (op'.type = "SetTimeBaseClient" /\ op'.status = -1)
        => engine'.transport.timebase_client = engine.transport.timebase_client

\* C39: timebase_client is always null or a client that is on the client list and not
\* dead, and a SetTimeBaseClient request that fails with status -1 leaves it unchanged
C39_TimebaseClientIsLiveAndKept ==
    [][TimebaseIsLive' /\ FailedSetTimebaseKeeps]_vars

----------------------------------------------------------------------------
(* The poll set and the FIFO table as they grow *)

\* the growth step of jack_get_fifo_fd for FIFO which_fifo: the table is reallocated
\* to sizeof (int) * fifo_size + 16 bytes and fifo_size goes up by 16
fifo_grow(fifo, which_fifo) ==
    IF which_fifo >= fifo.size
    THEN [fifo EXCEPT !.bytes = SizeofInt * fifo.size + 16,
                      !.size = fifo.size + 16]
    ELSE fifo

\* one more external client connects: setup_client writes pfd[pfd_max], the index
\* the request remembers
SetupClientPollFd ==
    /\ engine.pfd.max < MaxPollFds
    /\ engine' = [engine EXCEPT !.pfd = setup_client_pfd(@)]
    /\ op' = Op("SetupClientPollFd", 0, <<engine.pfd.max, engine.pfd.max >= engine.pfd.size>>)
    /\ events' = <<>>
    /\ hist' = NoHist
    /\ UNCHANGED <<clients, client, next_client_id, port_max, ports, freelist,
                   overflow, client_lock>>

\* jack_rechain_graph or jack_client_activate asks for FIFO which_fifo; the callers
\* count upwards, so the index is at most the first one the table does not hold
GetFifoFd ==
    /\ \E which_fifo \in 0..MaxFifo :
        /\ which_fifo <= engine.fifo.size
        /\ engine' = [engine EXCEPT !.fifo = fifo_grow(@, which_fifo)]
        /\ op' = Op("GetFifoFd", jack_get_fifo_fd(which_fifo),
                    <<which_fifo, which_fifo >= engine.fifo.size>>)
    /\ events' = <<>>
    /\ hist' = NoHist
    /\ UNCHANGED <<clients, client, next_client_id, port_max, ports, freelist,
                   overflow, client_lock>>

NextArrays ==
    \/ SetupClientPollFd
    \/ GetFifoFd

SpecArrays == Init /\ [][NextArrays]_vars

\* the number of whole elements an allocation of so many bytes holds
Allocated(bytes, sizeof) == bytes \div sizeof

\* the indices the last request wrote
Written ==
    IF op.type = "SetupClientPollFd" THEN {op.args[1]}
    ELSE IF op.type = "GetFifoFd"
         THEN {op.args[1]} \cup (IF op.args[2]
                                 THEN (engine.fifo.size - ArrayChunk)..(engine.fifo.size - 1)
                                 ELSE {})
         ELSE {}

\* C40: whenever the pfd array or the fifo array is grown the elements allocated are
\* at least the new pfd_size / fifo_size, and every index then written (pfd[pfd_max],
\* fifo[which_fifo], the -1 of the new fifo slots) is below the allocated element count
C40_GrownArraysHoldWhatIsWritten ==
    /\ Allocated(engine.pfd.bytes, SizeofPollfd) >= engine.pfd.size
    /\ Allocated(engine.fifo.bytes, SizeofInt) >= engine.fifo.size
    /\ op.type = "SetupClientPollFd"
           => \A i \in Written : i < Allocated(engine.pfd.bytes, SizeofPollfd)
    /\ op.type = "GetFifoFd"
           => \A i \in Written : i < Allocated(engine.fifo.bytes, SizeofInt)

============================================================================
